---- MODULE Spec2Model ----
(***************************************************************************)
(* Model of raven's document parser (src/src/parser): parse_frontmatter    *)
(* and parse_document, stepped through the phases of parse_document.       *)
(*                                                                         *)
(* A document is a sequence of lines.  Every line of the model stands for  *)
(* one concrete line of text:                                              *)
(*   delim            ---                                                  *)
(*   delim, ws        "--- "   (the delimiter with surrounding whitespace) *)
(*   yaml             type: person | tags: [t] | name: x                   *)
(*   heading          an ATX heading: level times #, then the text         *)
(*   decl             ::meeting(id=i, time=09:00)                          *)
(*   text             x @task [[a]]   (one trait, one wikilink)            *)
(*   text, hashtags   #z #t           (two inline tags)                    *)
(*   baddecl          ::meeting(id=i) x   (text after the parenthesis)     *)
(* Program strings that the code builds or compares character by           *)
(* character (paths, heading texts, slugs, ids) are sequences of           *)
(* one-character strings, and so are type names and tags; only the keys    *)
(* of field maps are plain strings.  The documents have ATX headings only, *)
(* and a --- line never follows a paragraph line, so that no line is a     *)
(* setext underline.                                                       *)
(***************************************************************************)
EXTENDS Integers, Sequences, FiniteSets, TLC

VARIABLES
    content,        \* input: the document text, as its sequence of lines
    path,           \* input: the file's path relative to the vault
    pc,             \* position of parse_document
    frontmatter,    \* result of parse_frontmatter
    headings,       \* result of extract_headings on the body
    type_decl_lines,\* line number -> embedded type declaration
    used_ids,       \* slug -> number of uses so far
    parent_stack,   \* sequence of [id, level]
    hi,             \* number of headings already processed by the loop
    objects,        \* Vec<ParsedObject>
    traits,         \* Vec<ParsedTrait>
    refs,           \* Vec<ParsedRef>
    error,          \* the Err parse_document returned, if it returned one
    suspended,      \* the call of parse_document on the worker not running now
    returned,       \* what the calls of parse_document have returned so far
    calls,          \* number of calls of parse_document made so far
    input,          \* the &str given to a line-level parser
    line_arg,       \* the line number given to a line-level parser
    fpc,            \* position of the line-level parser
    current_key,    \* parse_arguments: the key being read
    current_value,  \* parse_arguments: the value being read
    in_key,         \* parse_arguments: reading the key
    in_quotes,      \* parse_arguments: inside a quoted string
    bracket_depth,  \* parse_arguments: nesting depth of [ ]
    fields,         \* parse_arguments: the pairs inserted so far
    chars,          \* parse_arguments: the characters not yet read
    result,         \* what the line-level parser returned
    vault,          \* the vault on disk: its schema and its Markdown files
    cmd,            \* the command that runs, and its strict flag
    ipc,            \* position of the command
    ri,             \* number of files the walk has passed
    file_count,     \* the command's file_count
    error_count,    \* reindex: error_count; check: errors
    warnings,       \* check: warnings
    log,            \* the error lines printed for the files, in order
    db,             \* .raven/index.db as the connection sees it
    journal,        \* the tables at the start of the open transaction
    ins,            \* number of objects the open transaction has inserted
    report,         \* what the command printed at its end
    runs            \* number of commands run so far

\* the locals of one call of parse_document
doc_vars == <<content, path, pc, frontmatter, headings, type_decl_lines, used_ids,
              parent_stack, hi, objects, traits, refs, error>>

\* the workers that call parse_document
worker_vars == <<suspended, returned, calls>>

\* the locals of the line-level parsers
fn_vars == <<input, line_arg, fpc, current_key, current_value, in_key, in_quotes,
             bracket_depth, fields, chars, result>>

\* the commands reindex and check, and the index database
index_vars == <<vault, cmd, ipc, ri, file_count, error_count, warnings, log, db,
                journal, ins, report, runs>>

vars == <<doc_vars, worker_vars, fn_vars, index_vars>>

----------------------------------------------------------------------------
(* Bounds *)

\* longest body (lines after the frontmatter prefix) of an input document
MaxBody == 3

\* most pieces of a value given to parse_value
MaxValuePieces == 3

\* longest argument string given to parse_arguments
MaxArgLen == 4

\* most pieces of a line given to parse_trait_annotation
MaxTraitPieces == 4

\* most pieces of a text given to extract_references
MaxRefPieces == 5

\* most calls of parse_document the workers make between them
MaxCalls == 3

\* most commands run one after the other on a vault
MaxRuns == 2

----------------------------------------------------------------------------
(* Characters and strings *)

Digits == <<"0", "1", "2", "3", "4", "5", "6", "7", "8", "9">>

LowerOf == [I |-> "i", X |-> "x", D |-> "d"]

IsAsciiAlnum(c) ==
    \/ c \in {"i", "x", "d", "n", "m", "I", "X", "D"}
    \/ \E k \in 1..10 : Digits[k] = c

ToLower(c) == IF c \in DOMAIN LowerOf THEN LowerOf[c] ELSE c

\* decimal text of a natural number, as format!("{}", n) writes it
RECURSIVE Dec(_)
Dec(n) == IF n < 10 THEN <<Digits[n + 1]>>
          ELSE Dec(n \div 10) \o <<Digits[(n % 10) + 1]>>

\* slug::slugify: ASCII letters and digits are kept in lower case, every run
\* of other characters becomes one "-", and no "-" leads or trails the slug.
RECURSIVE SlugFrom(_, _)
SlugFrom(text, acc) ==
    IF text = <<>> THEN acc
    ELSE LET c == Head(text) IN
         IF IsAsciiAlnum(c) THEN SlugFrom(Tail(text), Append(acc, ToLower(c)))
         ELSE IF acc = <<>> \/ acc[Len(acc)] = "-" THEN SlugFrom(Tail(text), acc)
         ELSE SlugFrom(Tail(text), Append(acc, "-"))

slugify(text) ==
    LET s == SlugFrom(text, <<>>) IN
    IF s # <<>> /\ s[Len(s)] = "-" THEN SubSeq(s, 1, Len(s) - 1) ELSE s

\* str::strip_suffix(".md").unwrap_or(path)
StripMd(p) ==
    IF Len(p) >= 3 /\ SubSeq(p, Len(p) - 2, Len(p)) = <<".", "m", "d">>
    THEN SubSeq(p, 1, Len(p) - 3) ELSE p

----------------------------------------------------------------------------
(* Values *)

None == [some |-> FALSE, s |-> <<>>, n |-> 0]
SomeS(x) == [some |-> TRUE, s |-> x, n |-> 0]
SomeN(k) == [some |-> TRUE, s |-> <<>>, n |-> k]

\* schema::FieldValue
FString(x) == [t |-> "String", s |-> x, n |-> 0, items |-> <<>>]
FRef(x) == [t |-> "Ref", s |-> x, n |-> 0, items |-> <<>>]
FDate(x) == [t |-> "Date", s |-> x, n |-> 0, items |-> <<>>]
FDatetime(x) == [t |-> "Datetime", s |-> x, n |-> 0, items |-> <<>>]
FNumber(k) == [t |-> "Number", s |-> <<>>, n |-> k, items |-> <<>>]
FArray(xs) == [t |-> "Array", s |-> <<>>, n |-> 0, items |-> xs]
FBool(b) == [t |-> "Bool", s |-> <<>>, n |-> IF b THEN 1 ELSE 0, items |-> <<>>]
FNull == [t |-> "Null", s |-> <<>>, n |-> 0, items |-> <<>>]
\* no FieldValue: the call panicked
FPanic == [t |-> "Panic", s |-> <<>>, n |-> 0, items |-> <<>>]

NoFields == [k \in {} |-> FString(<<>>)]

\* HashMap::insert
MapInsert(m, k, v) == [x \in DOMAIN m \cup {k} |-> IF x = k THEN v ELSE m[x]]

----------------------------------------------------------------------------
(* Lines *)

S_section == <<"s", "e", "c", "t", "i", "o", "n">>
S_page == <<"p", "a", "g", "e">>
S_person == <<"p", "e", "r", "s", "o", "n">>
S_meeting == <<"m", "e", "e", "t", "i", "n", "g">>
S_task == <<"t", "a", "s", "k">>

Blank == [kind |-> "text", ws |-> FALSE, level |-> 0, text |-> <<>>,
          tname |-> <<>>, id |-> <<>>, fields |-> NoFields,
          trait |-> FALSE, ref |-> FALSE, hashtags |-> <<>>,
          key |-> "", isSeq |-> FALSE, items |-> <<>>]

Delim == [Blank EXCEPT !.kind = "delim"]
DelimWs == [Blank EXCEPT !.kind = "delim", !.ws = TRUE]
YType == [Blank EXCEPT !.kind = "yaml", !.key = "type", !.items = <<S_person>>]
YTags == [Blank EXCEPT !.kind = "yaml", !.key = "tags", !.isSeq = TRUE,
                       !.items = <<<<"t">>>>]
YName == [Blank EXCEPT !.kind = "yaml", !.key = "name", !.items = <<<<"x">>>>]
\* tags: "#t x"
YTagsStr == [Blank EXCEPT !.kind = "yaml", !.key = "tags",
                          !.items = <<<<"#", "t", " ", "x">>>>]
H(lvl, txt) == [Blank EXCEPT !.kind = "heading", !.level = lvl, !.text = txt]
Decl == [Blank EXCEPT !.kind = "decl", !.tname = S_meeting, !.id = <<"i">>,
                      !.fields = [id |-> FString(<<"i">>),
                                  time |-> FString(<<"0", "9", ":", "0", "0">>)]]
Text == [Blank EXCEPT !.trait = TRUE, !.ref = TRUE]
TagLine == [Blank EXCEPT !.hashtags = <<<<"z">>, <<"t">>>>]
BadDecl == [Blank EXCEPT !.kind = "baddecl"]

\* line.trim() == "---"
TrimIsDelim(line) == line.kind = "delim"

----------------------------------------------------------------------------
(* parser/frontmatter.rs *)

StartsWith(s, p) == Len(s) >= Len(p) /\ SubSeq(s, 1, Len(p)) = p
EndsWith(s, p) == Len(s) >= Len(p) /\ SubSeq(s, Len(s) - Len(p) + 1, Len(s)) = p
IsDigit(c) == \E k \in 1..10 : Digits[k] = c

is_date_string(s) ==
    /\ Len(s) = 10
    /\ {k \in 1..10 : s[k] = "-"} = {5, 8}
    /\ \A k \in (1..10) \ {5, 8} : IsDigit(s[k])

is_datetime_string(s) == (\E k \in 1..Len(s) : s[k] = "T") /\ Len(s) >= 16

\* a YAML string scalar
yaml_string_to_field_value(s) ==
    IF StartsWith(s, <<"[", "[">>) /\ EndsWith(s, <<"]", "]">>)
    THEN FRef(SubSeq(s, 3, Len(s) - 2))
    ELSE IF is_date_string(s) THEN FDate(s)
    ELSE IF is_datetime_string(s) THEN FDatetime(s)
    ELSE FString(s)

\* the value of a mapping entry: a string scalar or a sequence of them
yaml_to_field_value(e) ==
    IF e.isSeq
    THEN FArray([k \in 1..Len(e.items) |-> yaml_string_to_field_value(e.items[k])])
    ELSE yaml_string_to_field_value(e.items[1])

parse_tags_value(e) == IF e.isSeq THEN e.items ELSE <<e.items[1]>>

SelectLines(block, kinds) == SelectSeq(block, LAMBDA l : l.kind \in kinds)

\* variant (YamlFails_Never): the decoder accepts every block
\* serde_yaml::from_str on the block between the delimiters.  Heading lines
\* start with # and are YAML comments; text and declaration lines are plain
\* scalars; the entries form a mapping.  A mapping mixed with a plain scalar
\* and a mapping with a repeated key are rejected.
YamlFails_Never(block) == FALSE

YamlFails(block) ==
    LET es == SelectLines(block, {"yaml"})
        ss == SelectLines(block, {"text", "decl"})
    IN \/ es # <<>> /\ ss # <<>>
       \/ \E a, b \in 1..Len(es) : a < b /\ es[a].key = es[b].key

YamlEntries(block) == SelectLines(block, {"yaml"})

Frontmatter_default ==
    [err |-> FALSE, object_type |-> None, tags |-> <<>>, fields |-> NoFields,
     end_line |-> 0]

\* the loop over the mapping, entries taken in order
RECURSIVE FoldEntries(_, _)
FoldEntries(es, fm) ==
    IF es = <<>> THEN fm
    ELSE LET e == Head(es)
             next ==
                IF e.key = "type"
                THEN (IF e.isSeq THEN fm
                      ELSE [fm EXCEPT !.object_type = SomeS(e.items[1])])
                ELSE IF e.key = "tags"
                THEN [fm EXCEPT !.tags = parse_tags_value(e)]
                ELSE [fm EXCEPT !.fields =
                        MapInsert(fm.fields, e.key, yaml_to_field_value(e))]
         IN FoldEntries(Tail(es), next)

\* variant: the search for the closing line does not skip the first line
ClosingLines_NoSkip(lines) == {p \in 1..Len(lines) : TrimIsDelim(lines[p])}

\* 1-based positions p > 1 of the lines that close the block
ClosingLines(lines) == {p \in 2..Len(lines) : TrimIsDelim(lines[p])}

Min(S) == CHOOSE x \in S : \A y \in S : x <= y
Max(S) == CHOOSE x \in S : \A y \in S : x >= y

\* variant: the first line is not looked at
OpensFrontmatter_AnyFirstLine(lines) == lines # <<>>

OpensFrontmatter(lines) == lines # <<>> /\ TrimIsDelim(lines[1])

parse_frontmatter(lines) ==
    IF ~OpensFrontmatter(lines) THEN Frontmatter_default
    ELSE IF ClosingLines(lines) = {} THEN Frontmatter_default
    ELSE LET p == Min(ClosingLines(lines))
             block == SubSeq(lines, 2, p - 1)
         IN IF YamlFails(block) THEN [Frontmatter_default EXCEPT !.err = TRUE]
            ELSE FoldEntries(YamlEntries(block),
                             [Frontmatter_default EXCEPT !.end_line = p])

----------------------------------------------------------------------------
(* parser/type_decl.rs *)

\* char::is_whitespace, for the characters of the model
IsWhitespace(c) == c = " "

\* \w of the regex crate, for the characters of the model
IsWordChar(c) ==
    c \notin {" ", "-", "*", "@", "(", ")", "[", "]", "\"", ",", "=", ":", "#",
               ".", "|", "!"}

RECURSIVE TrimStart(_)
TrimStart(s) ==
    IF s # <<>> /\ IsWhitespace(Head(s)) THEN TrimStart(Tail(s)) ELSE s

RECURSIVE TrimEnd(_)
TrimEnd(s) ==
    IF s # <<>> /\ IsWhitespace(s[Len(s)]) THEN TrimEnd(SubSeq(s, 1, Len(s) - 1))
    ELSE s

\* str::trim
Trim(s) == TrimEnd(TrimStart(s))

Contains(s, c) == \E k \in 1..Len(s) : s[k] = c

\* value of a run of decimal digits
RECURSIVE DigitsValue(_, _)
DigitsValue(s, acc) ==
    IF s = <<>> THEN acc
    ELSE DigitsValue(Tail(s),
            10 * acc + (CHOOSE k \in 0..9 : Digits[k + 1] = Head(s)))

\* s.parse::<f64>() over the characters of the model, which hold no ".",
\* no "+" and no exponent: an optional "-" and one digit or more
ParsesAsF64(s) ==
    LET d == IF s # <<>> /\ Head(s) = "-" THEN Tail(s) ELSE s IN
    d # <<>> /\ \A k \in 1..Len(d) : IsDigit(d[k])

F64Of(s) ==
    IF Head(s) = "-" THEN 0 - DigitsValue(Tail(s), 0) ELSE DigitsValue(s, 0)

\* &s[from..to]: the slice, or a panic when the range is not in s
SliceOk(s, from, to) == from <= to /\ to <= Len(s)
Slice(s, from, to) == SubSeq(s, from + 1, to)

\* variant: a quoted string needs no second quote
QuotedLongEnough_Any(s) == TRUE

\* s.len() >= 2
QuotedLongEnough(s) == Len(s) >= 2

ArrayOf(items) ==
    IF \E k \in 1..Len(items) : items[k].t = "Panic" THEN FPanic ELSE FArray(items)

\* items.push(item) unless the item is Null
PushItem(items, item) == IF item.t = "Null" THEN items ELSE Append(items, item)

RECURSIVE parse_value(_)
RECURSIVE ArrayScan(_, _, _, _, _)

\* parse_array_items: the loop over the characters, then the last item
ArrayScan(s, items, current, depth, quoted) ==
    IF s = <<>>
    THEN IF Trim(current) # <<>> THEN PushItem(items, parse_value(Trim(current)))
         ELSE items
    ELSE LET c == Head(s) IN
         IF c = "\""
         THEN ArrayScan(Tail(s), items, Append(current, c), depth, ~quoted)
         ELSE IF c = "[" /\ ~quoted
         THEN ArrayScan(Tail(s), items, Append(current, c), depth + 1, quoted)
         ELSE IF c = "]" /\ ~quoted
         THEN ArrayScan(Tail(s), items, Append(current, c), depth - 1, quoted)
         ELSE IF c = "," /\ ~quoted /\ depth = 0
         THEN ArrayScan(Tail(s), PushItem(items, parse_value(Trim(current))),
                        <<>>, depth, quoted)
         ELSE ArrayScan(Tail(s), items, Append(current, c), depth, quoted)

parse_array_items(s) == ArrayScan(s, <<>>, <<>>, 0, FALSE)

parse_value(s0) ==
    LET s == Trim(s0) IN
    IF s = <<>> THEN FNull
    ELSE IF /\ StartsWith(s, <<"[", "[">>)
            /\ ~StartsWith(s, <<"[", "[", "[">>)
            /\ EndsWith(s, <<"]", "]">>)
    THEN (IF SliceOk(s, 2, Len(s) - 2) THEN FRef(Slice(s, 2, Len(s) - 2))
          ELSE FPanic)
    ELSE IF Head(s) = "[" /\ s[Len(s)] = "]"
    THEN (IF SliceOk(s, 1, Len(s) - 1)
          THEN ArrayOf(parse_array_items(Slice(s, 1, Len(s) - 1)))
          ELSE FPanic)
    ELSE IF Head(s) = "\"" /\ s[Len(s)] = "\"" /\ QuotedLongEnough(s)
    THEN (IF SliceOk(s, 1, Len(s) - 1) THEN FString(Slice(s, 1, Len(s) - 1))
          ELSE FPanic)
    ELSE IF s = <<"t", "r", "u", "e">> THEN FBool(TRUE)
    ELSE IF s = <<"f", "a", "l", "s", "e">> THEN FBool(FALSE)
    ELSE IF ParsesAsF64(s) THEN FNumber(F64Of(s))
    ELSE IF /\ Len(s) >= 10
            /\ \A k \in 1..4 : IsDigit(s[k])
            /\ (Contains(s, "T") \/ Len(s) = 10)
    THEN (IF Contains(s, "T") THEN FDatetime(s) ELSE FDate(s))
    ELSE IF Len(s) = 5 /\ s[3] = ":" THEN FString(s)
    ELSE FString(s)

\* the locals of parse_arguments
ArgsStart ==
    [current_key |-> <<>>, current_value |-> <<>>, in_key |-> TRUE,
     in_quotes |-> FALSE, bracket_depth |-> 0, fields |-> <<>>]

\* fields.insert(key, value) unless the key is empty
InsertPair(st) ==
    LET key == Trim(st.current_key) IN
    IF key = <<>> THEN st.fields
    ELSE MapInsert(st.fields, key, parse_value(Trim(st.current_value)))

\* one turn of the loop over args.chars()
ArgStep(st, c) ==
    IF c = "\"" /\ st.bracket_depth = 0
    THEN [st EXCEPT !.in_quotes = ~st.in_quotes,
                    !.current_value = Append(st.current_value, c)]
    ELSE IF c = "[" /\ ~st.in_quotes
    THEN [st EXCEPT !.bracket_depth = st.bracket_depth + 1,
                    !.current_value = Append(st.current_value, c)]
    ELSE IF c = "]" /\ ~st.in_quotes
    THEN [st EXCEPT !.bracket_depth = st.bracket_depth - 1,
                    !.current_value = Append(st.current_value, c)]
    ELSE IF c = "=" /\ ~st.in_quotes /\ st.bracket_depth = 0 /\ st.in_key
    THEN [st EXCEPT !.in_key = FALSE]
    ELSE IF c = "," /\ ~st.in_quotes /\ st.bracket_depth = 0
    THEN [st EXCEPT !.fields = InsertPair(st), !.current_key = <<>>,
                    !.current_value = <<>>, !.in_key = TRUE]
    ELSE IF st.in_key
    THEN [st EXCEPT !.current_key = Append(st.current_key, c)]
    ELSE [st EXCEPT !.current_value = Append(st.current_value, c)]

RECURSIVE ArgLoop(_, _)
ArgLoop(st, s) == IF s = <<>> THEN st ELSE ArgLoop(ArgStep(st, Head(s)), Tail(s))

\* parse_arguments as a whole
parse_arguments(args) ==
    IF Trim(args) = <<>> THEN <<>> ELSE InsertPair(ArgLoop(ArgsStart, args))

\* TYPE_DECL_REGEX ^::(\w+)\s*\(([^)]*)\)\s*$ on a trimmed line: the end of
\* the name, the opening parenthesis and the first closing parenthesis
NameEnd(s) ==
    Max({2} \cup {k \in 3..Len(s) : \A j \in 3..k : IsWordChar(s[j])})
OpenParen(s) ==
    Min({Len(s) + 1} \cup {k \in (NameEnd(s) + 1)..Len(s) : ~IsWhitespace(s[k])})
CloseParen(s) ==
    Min({Len(s) + 1} \cup {k \in (OpenParen(s) + 1)..Len(s) : s[k] = ")"})

TypeDeclMatches(s) ==
    /\ StartsWith(s, <<":", ":">>)
    /\ NameEnd(s) > 2
    /\ OpenParen(s) <= Len(s) /\ s[OpenParen(s)] = "("
    /\ CloseParen(s) <= Len(s)
    /\ \A k \in (CloseParen(s) + 1)..Len(s) : IsWhitespace(s[k])

\* parse_type_declaration: [kind |-> "none"], [kind |-> "err"] or the declaration
parse_type_declaration(line) ==
    LET trimmed == Trim(line) IN
    IF ~StartsWith(trimmed, <<":", ":">>) THEN [kind |-> "none"]
    ELSE IF ~TypeDeclMatches(trimmed) THEN [kind |-> "err"]
    ELSE [kind |-> "some",
          type_name |-> SubSeq(trimmed, 3, NameEnd(trimmed)),
          fields |-> parse_arguments(
                        SubSeq(trimmed, OpenParen(trimmed) + 1, CloseParen(trimmed) - 1))]

----------------------------------------------------------------------------
(* parser/traits.rs *)

\* parse_trait_arguments(args).unwrap_or_default()
parse_trait_arguments(args) ==
    LET d == parse_type_declaration(
                <<":", ":", "d", "u", "m", "m", "y", "(">> \o args \o <<")">>) IN
    IF d.kind = "some" THEN [ok |-> TRUE, fields |-> d.fields]
    ELSE IF d.kind = "none" THEN [ok |-> TRUE, fields |-> <<>>]
    ELSE [ok |-> FALSE, fields |-> <<>>]

\* variant: an @ counts wherever it stands
AtSign_Anywhere(line, s) == IF line[s] = "@" THEN s ELSE 0

\* (?:^|[\s\-\*])@ for a match that starts at position s: the position of
\* the @, or 0 when no match starts at s
AtSign(line, s) ==
    IF s = 1 /\ line[1] = "@" THEN 1
    ELSE IF s < Len(line) /\ line[s] \in {" ", "-", "*"} /\ line[s + 1] = "@"
    THEN s + 1
    ELSE 0

\* (\w+): the last character of the name that follows the @ at position at
TraitNameEnd(line, at) ==
    Max({at} \cup {k \in (at + 1)..Len(line) : \A j \in (at + 1)..k : IsWordChar(line[j])})

\* (?:\s*\(([^)]*)\))? after the name: the parentheses, 0 when there are none
ArgsOpen(line, ne) ==
    LET q == Min({Len(line) + 1} \cup {k \in (ne + 1)..Len(line) : ~IsWhitespace(line[k])})
    IN IF q <= Len(line) /\ line[q] = "(" /\ \E r \in (q + 1)..Len(line) : line[r] = ")"
       THEN q ELSE 0
ArgsClose(line, q) == Min({r \in (q + 1)..Len(line) : line[r] = ")"})

\* whether TRAIT_REGEX matches from position s on
TraitMatchesAt(line, s) ==
    AtSign(line, s) # 0 /\ TraitNameEnd(line, AtSign(line, s)) > AtSign(line, s)

\* the match that starts at s: offsets as the regex crate reports them
TraitMatch(line, s) ==
    LET at == AtSign(line, s)
        ne == TraitNameEnd(line, at)
        q == ArgsOpen(line, ne)
    IN [start |-> s - 1,
        end |-> IF q = 0 THEN ne ELSE ArgsClose(line, q),
        trait_name |-> SubSeq(line, at + 1, ne),
        args_str |-> IF q = 0 THEN <<>> ELSE SubSeq(line, q + 1, ArgsClose(line, q) - 1)]

\* TRAIT_REGEX.captures_iter(line): the leftmost match from position from
\* on, then the matches after its end
RECURSIVE TraitCaptures(_, _)
TraitCaptures(line, from) ==
    LET starts == {s \in from..Len(line) : TraitMatchesAt(line, s)} IN
    IF starts = {} THEN <<>>
    ELSE LET m == TraitMatch(line, Min(starts)) IN
         <<m>> \o TraitCaptures(line, m.end + 1)

\* variant: the content is the whole line
ContentAfter_WholeLine(line, end) == Trim(line)

\* line[full_match.end()..].trim()
ContentAfter(line, end) == Trim(SubSeq(line, end + 1, Len(line)))

parse_trait_annotation(line, line_number) ==
    LET caps == TraitCaptures(line, 1) IN
    [k \in 1..Len(caps) |->
        [trait_name |-> caps[k].trait_name,
         fields |-> parse_trait_arguments(caps[k].args_str).fields,
         content |-> ContentAfter(line, caps[k].end),
         line |-> line_number,
         start_offset |-> caps[k].start,
         end_offset |-> caps[k].end]]

----------------------------------------------------------------------------
(* parser/refs.rs *)

\* ([^\]|]+): the last character of the target that starts at position b
RefTargetEnd(line, b) ==
    Max({b - 1} \cup {k \in b..Len(line) : \A j \in b..k : line[j] \notin {"]", "|"}})

\* ([^\]]+): the last character of the display text that starts at position b
RefDisplayEnd(line, b) ==
    Max({b - 1} \cup {k \in b..Len(line) : \A j \in b..k : line[j] # "]"})

\* variant: one ] closes a reference
ClosesAt_One(line, k) == k <= Len(line) /\ line[k] = "]"

\* \]\] at position k
ClosesAt(line, k) == k + 1 <= Len(line) /\ line[k] = "]" /\ line[k + 1] = "]"

\* whether the match of REF_REGEX at position s has the |display part
RefHasDisplay(line, s) ==
    LET te == RefTargetEnd(line, s + 2) IN
    /\ te + 1 <= Len(line) /\ line[te + 1] = "|"
    /\ RefDisplayEnd(line, te + 2) >= te + 2
    /\ ClosesAt(line, RefDisplayEnd(line, te + 2) + 1)

\* whether REF_REGEX matches from position s on
RefMatchesAt(line, s) ==
    /\ s + 1 <= Len(line) /\ line[s] = "[" /\ line[s + 1] = "["
    /\ RefTargetEnd(line, s + 2) >= s + 2
    /\ \/ RefHasDisplay(line, s)
       \/ ClosesAt(line, RefTargetEnd(line, s + 2) + 1)

RefMatch(line, s, line_num) ==
    LET te == RefTargetEnd(line, s + 2)
        de == RefDisplayEnd(line, te + 2)
    IN [target |-> SubSeq(line, s + 2, te),
        display_text |-> IF RefHasDisplay(line, s)
                         THEN SomeS(SubSeq(line, te + 2, de)) ELSE None,
        line |-> line_num,
        start |-> s - 1,
        end |-> IF RefHasDisplay(line, s) THEN de + 2 ELSE te + 2]

\* REF_REGEX.captures_iter(line)
RECURSIVE RefCaptures(_, _, _)
RefCaptures(line, from, line_num) ==
    LET starts == {s \in from..Len(line) : RefMatchesAt(line, s)} IN
    IF starts = {} THEN <<>>
    ELSE LET m == RefMatch(line, Min(starts), line_num) IN
         <<m>> \o RefCaptures(line, m.end + 1, line_num)

\* content.lines(): the text split at "\n", without a last empty line
RECURSIVE StrLines(_, _)
StrLines(s, current) ==
    IF s = <<>> THEN (IF current = <<>> THEN <<>> ELSE <<current>>)
    ELSE IF Head(s) = "\n" THEN <<current>> \o StrLines(Tail(s), <<>>)
    ELSE StrLines(Tail(s), Append(current, Head(s)))

\* the loop over content.lines().enumerate(), from line index line_idx on
RECURSIVE RefsOfLines(_, _, _)
RefsOfLines(lines, line_idx, start_line) ==
    IF lines = <<>> THEN <<>>
    ELSE RefCaptures(Head(lines), 1, start_line + line_idx)
            \o RefsOfLines(Tail(lines), line_idx + 1, start_line)

extract_references(content_, start_line) ==
    RefsOfLines(StrLines(content_, <<>>), 0, start_line)

----------------------------------------------------------------------------
(* parser/markdown.rs, and the line scanners parse_document calls *)

\* extract_headings: one Heading per heading of the body whose text is not
\* empty, in document order, with the line it starts on
RECURSIVE HeadingsFrom(_, _)
HeadingsFrom(lines, line_num) ==
    IF lines = <<>> THEN <<>>
    ELSE LET l == Head(lines)
             rest == HeadingsFrom(Tail(lines), line_num + 1)
         IN IF l.kind = "heading" /\ l.text # <<>>
            THEN <<[level |-> l.level, text |-> l.text, line |-> line_num]>> \o rest
            ELSE rest

extract_headings(lines, start_line) == HeadingsFrom(lines, start_line)

\* parse_embedded_type(line, line_num): the declaration of a ::name(id=X, ...) line
IsTypeDecl(l) == l.kind = "decl"
parse_embedded_type(l) ==
    [type_name |-> l.tname, id |-> l.id, fields |-> l.fields, tags |-> <<>>]

\* parse_trait(line, line_num): the annotation of the line, if it has one
HasTrait(l) == l.trait
parse_trait(l) ==
    [name |-> S_task, content |-> <<"[", "[", "a", "]", "]">>, fields |-> NoFields]

\* extract_refs: the wikilinks of the line
HasRef(l) == l.ref
extract_ref(l, line_num) ==
    [target_raw |-> <<"a">>, display_text |-> None, line |-> line_num,
     start |-> 8, end |-> 13]

----------------------------------------------------------------------------
(* parser/document.rs *)

relative_path == path

\* format!("Failed to parse frontmatter in {}", relative_path), the prefix
FailedToParseFrontmatterIn ==
    <<"F", "a", "i", "l", "e", "d", " ", "t", "o", " ", "p", "a", "r", "s", "e", " ",
      "f", "r", "o", "n", "t", "m", "a", "t", "t", "e", "r", " ", "i", "n", " ">>
file_id == StripMd(relative_path)

\* The body starts after the closing delimiter; with no frontmatter
\* (end_line = 0) it is the whole text and starts at line 1.
content_start_line == frontmatter.end_line + 1
body_lines == SubSeq(content, frontmatter.end_line + 1, Len(content))

\* extract_tags_from_text over the text events of the body, in order
RECURSIVE TagsInOrder(_)
TagsInOrder(lines) ==
    IF lines = <<>> THEN <<>> ELSE Head(lines).hashtags \o TagsInOrder(Tail(lines))

\* the order of String: byte by byte, a proper prefix first
ByteOrder == <<"#", "-", "0", "1", "2", "9", "I", "X", "d", "i", "t", "x", "z">>
ByteRank(c) == CHOOSE k \in 1..Len(ByteOrder) : ByteOrder[k] = c

RECURSIVE StrLess(_, _)
StrLess(a, b) ==
    IF b = <<>> THEN FALSE
    ELSE IF a = <<>> THEN TRUE
    ELSE IF Head(a) = Head(b) THEN StrLess(Tail(a), Tail(b))
    ELSE ByteRank(Head(a)) < ByteRank(Head(b))

\* tags.sort(); tags.dedup(): the distinct strings in increasing order
RECURSIVE SortDedup(_)
SortDedup(S) ==
    IF S = {} THEN <<>>
    ELSE LET least == CHOOSE x \in S : \A y \in S \ {x} : StrLess(x, y)
         IN <<least>> \o SortDedup(S \ {least})

extract_inline_tags(lines) ==
    LET tags == TagsInOrder(lines) IN
    SortDedup({tags[k] : k \in 1..Len(tags)})

RECURSIVE PushNew(_, _)
PushNew(tags, more) ==
    IF more = <<>> THEN tags
    ELSE IF \E k \in 1..Len(tags) : tags[k] = Head(more)
         THEN PushNew(tags, Tail(more))
         ELSE PushNew(Append(tags, Head(more)), Tail(more))

FileObject ==
    LET file_tags == PushNew(frontmatter.tags, extract_inline_tags(body_lines))
        file_fields ==
            IF file_tags = <<>> THEN frontmatter.fields
            ELSE MapInsert(frontmatter.fields, "tags",
                    FArray([k \in 1..Len(file_tags) |-> FString(file_tags[k])]))
    IN [id |-> file_id,
        object_type |-> IF frontmatter.object_type.some
                        THEN frontmatter.object_type.s ELSE S_page,
        fields |-> file_fields,
        tags |-> file_tags,
        heading |-> None,
        heading_level |-> None,
        parent_id |-> None,
        line_start |-> 1,
        line_end |-> None]

TypeDeclLines ==
    LET ks == {k \in 1..Len(body_lines) : IsTypeDecl(body_lines[k])}
    IN [ln \in {content_start_line + k - 1 : k \in ks} |->
            parse_embedded_type(body_lines[ln - content_start_line + 1])]

\* variant: only strictly deeper entries are popped
RECURSIVE PopParents_Deeper(_, _)
PopParents_Deeper(stack, level) ==
    IF Len(stack) > 1 /\ stack[Len(stack)].level > level
    THEN PopParents_Deeper(SubSeq(stack, 1, Len(stack) - 1), level)
    ELSE stack

\* while parent_stack.len() > 1 && parent_stack.last().1 >= level { pop }
RECURSIVE PopParents(_, _)
PopParents(stack, level) ==
    IF Len(stack) > 1 /\ stack[Len(stack)].level >= level
    THEN PopParents(SubSeq(stack, 1, Len(stack) - 1), level)
    ELSE stack

\* variant: the fallback is built from the level, not the line
CandidateSlug_LevelFallback(heading) ==
    LET base_slug == slugify(heading.text) IN
    IF base_slug = <<>> THEN S_section \o <<"-">> \o Dec(heading.level)
    ELSE base_slug

\* the slug of a section before collision handling
CandidateSlug(heading) ==
    LET base_slug == slugify(heading.text) IN
    IF base_slug = <<>> THEN S_section \o <<"-">> \o Dec(heading.line)
    ELSE base_slug

UseCount(ids, slug) == IF slug \in DOMAIN ids THEN ids[slug] ELSE 0

\* variant: the suffix is one less than the count
UniqueSlug_OffByOne(slug, count) ==
    IF count = 1 THEN slug ELSE slug \o <<"-">> \o Dec(count - 1)

UniqueSlug(slug, count) ==
    IF count = 1 THEN slug ELSE slug \o <<"-">> \o Dec(count)

EmbeddedId(fid, local) == fid \o <<"#">> \o local

\* variant: the id is derived from the heading text, not the declared id
TypedObject_SlugId(heading, embedded, current_parent) ==
    [id |-> file_id \o <<"#">> \o slugify(heading.text) \o <<"-", "1">>,
     object_type |-> embedded.type_name,
     fields |-> embedded.fields,
     tags |-> embedded.tags,
     heading |-> SomeS(heading.text),
     heading_level |-> SomeN(heading.level),
     parent_id |-> SomeS(current_parent),
     line_start |-> heading.line,
     line_end |-> None]

TypedObject(heading, embedded, current_parent) ==
    [id |-> EmbeddedId(file_id, embedded.id),
     object_type |-> embedded.type_name,
     fields |-> embedded.fields,
     tags |-> embedded.tags,
     heading |-> SomeS(heading.text),
     heading_level |-> SomeN(heading.level),
     parent_id |-> SomeS(current_parent),
     line_start |-> heading.line,
     line_end |-> None]

SectionObject(heading, unique_slug, current_parent) ==
    [id |-> EmbeddedId(file_id, unique_slug),
     object_type |-> S_section,
     fields |-> [title |-> FString(heading.text), level |-> FNumber(heading.level)],
     tags |-> <<>>,
     heading |-> SomeS(heading.text),
     heading_level |-> SomeN(heading.level),
     parent_id |-> SomeS(current_parent),
     line_start |-> heading.line,
     line_end |-> None]

\* variant: the first object that starts at or before the line
ParentIndex_First(objs, line) ==
    LET cand == {k \in 1..Len(objs) : objs[k].line_start <= line} IN
    IF cand = {} THEN 1 ELSE Min(cand)

\* objects.iter().filter(start <= line).max_by_key(start): of several objects
\* with the greatest start, max_by_key returns the last
ParentIndex(objs, line) ==
    LET cand == {k \in 1..Len(objs) : objs[k].line_start <= line} IN
    IF cand = {} THEN 1
    ELSE Max({k \in cand : \A j \in cand : objs[j].line_start <= objs[k].line_start})

find_parent_for_line(objs, line) == objs[ParentIndex(objs, line)].id

\* position of object k in the stable sort by line_start
SortRank(objs, k) ==
    Cardinality({j \in 1..Len(objs) :
        \/ objs[j].line_start < objs[k].line_start
        \/ objs[j].line_start = objs[k].line_start /\ j < k}) + 1

SortedIndices(objs) ==
    [r \in 1..Len(objs) |-> CHOOSE k \in 1..Len(objs) : SortRank(objs, k) = r]

\* variant: an object ends on the line the next one starts on
LineEndAt_NoMinusOne(objs, indices, i) ==
    IF i + 1 <= Len(indices)
    THEN SomeN(objs[indices[i + 1]].line_start)
    ELSE None

LineEndAt(objs, indices, i) ==
    IF i + 1 <= Len(indices)
    THEN SomeN(objs[indices[i + 1]].line_start - 1)
    ELSE None

compute_line_ends(objs) ==
    LET indices == SortedIndices(objs) IN
    [k \in 1..Len(objs) |->
        [objs[k] EXCEPT !.line_end = LineEndAt(objs, indices, SortRank(objs, k))]]

RECURSIVE TraitsFrom(_, _, _)
TraitsFrom(lines, line_num, objs) ==
    IF lines = <<>> THEN <<>>
    ELSE LET rest == TraitsFrom(Tail(lines), line_num + 1, objs) IN
         IF HasTrait(Head(lines))
         THEN LET t == parse_trait(Head(lines)) IN
              <<[trait_type |-> t.name, content |-> t.content, fields |-> t.fields,
                 parent_object_id |-> find_parent_for_line(objs, line_num),
                 line |-> line_num]>> \o rest
         ELSE rest

RECURSIVE RefsFrom(_, _, _)
RefsFrom(lines, line_num, objs) ==
    IF lines = <<>> THEN <<>>
    ELSE LET rest == RefsFrom(Tail(lines), line_num + 1, objs) IN
         IF HasRef(Head(lines))
         THEN LET r == extract_ref(Head(lines), line_num) IN
              <<[source_id |-> find_parent_for_line(objs, r.line),
                 target_raw |-> r.target_raw, display_text |-> r.display_text,
                 line |-> r.line, start |-> r.start, end |-> r.end]>> \o rest
         ELSE rest

----------------------------------------------------------------------------
(* Input documents *)

Paths == { <<"d", ".", "m", "d">>, <<"n">> }

\* what a document may begin with: nothing, an opening delimiter that is
\* never closed, or a delimited block
Prefixes ==
    { <<>>,
      <<Delim>>,
      <<DelimWs>>,
      <<Delim, YType>>,
      <<Delim, YType, YTags, Delim>>,
      <<DelimWs, YName, H(1, <<"I">>), DelimWs>>,
      <<Delim, YType, DelimWs>>,
      <<Delim, YType, Text, Delim>>,
      <<Delim, YTagsStr, Delim>>,
      <<H(1, <<"I">>), Delim>>,
      <<H(1, <<"I">>), H(3, <<"I">>)>> }

BodyAlphabet ==
    { H(1, <<"I">>), H(2, <<"I">>), H(2, <<"I", " ", "2">>), H(1, <<"!">>),
      H(2, <<>>), Decl, Text, TagLine, BadDecl }

RECURSIVE SeqsUpTo(_, _)
SeqsUpTo(S, n) ==
    IF n = 0 THEN {<<>>}
    ELSE LET shorter == SeqsUpTo(S, n - 1) IN
         shorter \cup {Append(q, x) : q \in {t \in shorter : Len(t) = n - 1}, x \in S}

Docs == {p \o b : p \in Prefixes, b \in SeqsUpTo(BodyAlphabet, MaxBody)}

----------------------------------------------------------------------------
(* parse_document, phase by phase *)

\* the locals of a call before anything is assigned to them
FreshCall ==
    /\ pc = "start"
    /\ frontmatter = Frontmatter_default
    /\ headings = <<>>
    /\ type_decl_lines = <<>>
    /\ used_ids = <<>>
    /\ parent_stack = <<>>
    /\ hi = 0
    /\ objects = <<>>
    /\ traits = <<>>
    /\ refs = <<>>
    /\ error = None

\* a worker that has not called parse_document
IdleFrame ==
    [content |-> <<>>, path |-> <<>>, pc |-> "idle",
     frontmatter |-> Frontmatter_default, headings |-> <<>>,
     type_decl_lines |-> <<>>, used_ids |-> <<>>, parent_stack |-> <<>>,
     hi |-> 0, objects |-> <<>>, traits |-> <<>>, refs |-> <<>>, error |-> None]

\* one worker, one call
OneCall ==
    /\ suspended = IdleFrame
    /\ returned = <<>>
    /\ calls = 1

\* no line-level parser is running
FnIdle ==
    /\ input = <<>>
    /\ line_arg = 0
    /\ fpc = "idle"
    /\ current_key = <<>>
    /\ current_value = <<>>
    /\ in_key = TRUE
    /\ in_quotes = FALSE
    /\ bracket_depth = 0
    /\ fields = <<>>
    /\ chars = <<>>
    /\ result = <<>>

\* the tables of the index, each a set of rows
EmptyTables == [objects |-> {}, traits |-> {}, refs |-> {}]

\* no command is running
IndexIdle ==
    /\ vault = [schema |-> "default", files |-> <<>>]
    /\ cmd = [name |-> "none", strict |-> FALSE]
    /\ ipc = "idle"
    /\ ri = 0
    /\ file_count = 0
    /\ error_count = 0
    /\ warnings = 0
    /\ log = <<>>
    /\ db = EmptyTables
    /\ journal = EmptyTables
    /\ ins = 0
    /\ report = <<>>
    /\ runs = 0

Init ==
    /\ content \in Docs
    /\ path \in Paths
    /\ FreshCall
    /\ OneCall
    /\ IndexIdle
    /\ FnIdle

\* parse_frontmatter(content) succeeds
ParseFrontmatterOk ==
    /\ pc = "start"
    /\ ~parse_frontmatter(content).err
    /\ frontmatter' = parse_frontmatter(content)
    /\ pc' = "file_object"
    /\ UNCHANGED <<content, path, headings, type_decl_lines, used_ids, parent_stack,
                   hi, objects, traits, refs>>
    /\ UNCHANGED <<error, worker_vars, fn_vars, index_vars>>

\* parse_frontmatter(content) fails: parse_document returns the error
ParseFrontmatterErr ==
    /\ pc = "start"
    /\ parse_frontmatter(content).err
    /\ frontmatter' = parse_frontmatter(content)
    /\ error' = SomeS(FailedToParseFrontmatterIn \o relative_path)
    /\ pc' = "error"
    /\ UNCHANGED <<content, path, headings, type_decl_lines, used_ids, parent_stack,
                   hi, objects, traits, refs>>
    /\ UNCHANGED <<worker_vars, fn_vars, index_vars>>

CreateFileObject ==
    /\ pc = "file_object"
    /\ objects' = Append(objects, FileObject)
    /\ pc' = "scan"
    /\ UNCHANGED <<content, path, frontmatter, headings, type_decl_lines, used_ids,
                   parent_stack, hi, traits, refs>>
    /\ UNCHANGED <<error, worker_vars, fn_vars, index_vars>>

\* variant: the collision counter of the call before is kept
NewUsedIds_Kept == used_ids

\* HashMap::new()
NewUsedIds == <<>>

ScanStructure ==
    /\ pc = "scan"
    /\ headings' = extract_headings(body_lines, content_start_line)
    /\ type_decl_lines' = TypeDeclLines
    /\ used_ids' = NewUsedIds
    /\ parent_stack' = <<[id |-> file_id, level |-> 0]>>
    /\ hi' = 0
    /\ pc' = "headings"
    /\ UNCHANGED <<content, path, frontmatter, objects, traits, refs>>
    /\ UNCHANGED <<error, worker_vars, fn_vars, index_vars>>

\* one iteration of the loop over the headings: the line after the heading
\* holds a type declaration
ProcessTypedHeading ==
    /\ pc = "headings"
    /\ hi < Len(headings)
    /\ LET heading == headings[hi + 1]
           next_line == heading.line + 1
           stack == PopParents(parent_stack, heading.level)
           current_parent == stack[Len(stack)].id
       IN /\ next_line \in DOMAIN type_decl_lines
          /\ LET obj == TypedObject(heading, type_decl_lines[next_line], current_parent)
             IN /\ objects' = Append(objects, obj)
                /\ parent_stack' = Append(stack, [id |-> obj.id, level |-> heading.level])
    /\ hi' = hi + 1
    /\ UNCHANGED <<content, path, pc, frontmatter, headings, type_decl_lines,
                   used_ids, traits, refs>>
    /\ UNCHANGED <<error, worker_vars, fn_vars, index_vars>>

\* one iteration of the loop over the headings: no type declaration follows
ProcessSectionHeading ==
    /\ pc = "headings"
    /\ hi < Len(headings)
    /\ LET heading == headings[hi + 1]
           next_line == heading.line + 1
           stack == PopParents(parent_stack, heading.level)
           current_parent == stack[Len(stack)].id
           slug == CandidateSlug(heading)
           count == UseCount(used_ids, slug) + 1
       IN /\ next_line \notin DOMAIN type_decl_lines
          /\ used_ids' = MapInsert(used_ids, slug, count)
          /\ LET obj == SectionObject(heading, UniqueSlug(slug, count), current_parent)
             IN /\ objects' = Append(objects, obj)
                /\ parent_stack' = Append(stack, [id |-> obj.id, level |-> heading.level])
    /\ hi' = hi + 1
    /\ UNCHANGED <<content, path, pc, frontmatter, headings, type_decl_lines,
                   traits, refs>>
    /\ UNCHANGED <<error, worker_vars, fn_vars, index_vars>>

ProcessTraits ==
    /\ pc = "headings"
    /\ hi = Len(headings)
    /\ traits' = TraitsFrom(body_lines, content_start_line, objects)
    /\ pc' = "refs"
    /\ UNCHANGED <<content, path, frontmatter, headings, type_decl_lines, used_ids,
                   parent_stack, hi, objects, refs>>
    /\ UNCHANGED <<error, worker_vars, fn_vars, index_vars>>

ProcessRefs ==
    /\ pc = "refs"
    /\ refs' = RefsFrom(body_lines, content_start_line, objects)
    /\ pc' = "line_ends"
    /\ UNCHANGED <<content, path, frontmatter, headings, type_decl_lines, used_ids,
                   parent_stack, hi, objects, traits>>
    /\ UNCHANGED <<error, worker_vars, fn_vars, index_vars>>

\* compute_line_ends, then Ok(ParsedDocument)
ComputeLineEnds ==
    /\ pc = "line_ends"
    /\ objects' = compute_line_ends(objects)
    /\ pc' = "done"
    /\ UNCHANGED <<content, path, frontmatter, headings, type_decl_lines, used_ids,
                   parent_stack, hi, traits, refs>>
    /\ UNCHANGED <<error, worker_vars, fn_vars, index_vars>>

Next ==
    \/ ParseFrontmatterOk
    \/ ParseFrontmatterErr
    \/ CreateFileObject
    \/ ScanStructure
    \/ ProcessTypedHeading
    \/ ProcessSectionHeading
    \/ ProcessTraits
    \/ ProcessRefs
    \/ ComputeLineEnds

Spec == Init /\ [][Next]_vars

----------------------------------------------------------------------------
(* Several calls of parse_document, on two workers *)

\* the documents the workers parse: repeated headings, a typed heading, a
\* frontmatter block the decoder rejects, and a frontmatter block with tags
WorkerDocs ==
    { <<H(1, <<"I">>), H(1, <<"I">>)>>,
      <<H(1, <<"I">>), Decl, H(2, <<"I">>)>>,
      <<Delim, YType, Text, Delim>>,
      <<Delim, YType, YTags, Delim, H(2, <<"I">>)>> }

\* the call the running worker is in, with all its locals
Frame ==
    [content |-> content, path |-> path, pc |-> pc, frontmatter |-> frontmatter,
     headings |-> headings, type_decl_lines |-> type_decl_lines,
     used_ids |-> used_ids, parent_stack |-> parent_stack, hi |-> hi,
     objects |-> objects, traits |-> traits, refs |-> refs, error |-> error]

\* Ok(ParsedDocument { file_path, objects, traits, refs }) or the error
ResultOf(f) ==
    [ok |-> f.pc = "done", file_path |-> f.path, objects |-> f.objects,
     traits |-> f.traits, refs |-> f.refs, error |-> f.error]

InitWorkers ==
    /\ content \in WorkerDocs
    /\ path \in Paths
    /\ FreshCall
    /\ OneCall
    /\ IndexIdle
    /\ FnIdle

\* parse_document returns to its caller, which keeps the result
ReturnDocument ==
    /\ pc \in {"done", "error"}
    /\ returned' = Append(returned,
            [content |-> content, path |-> path, result |-> ResultOf(Frame)])
    /\ pc' = "idle"
    /\ UNCHANGED <<content, path, frontmatter, headings, type_decl_lines, used_ids,
                   parent_stack, hi, objects, traits, refs, error>>
    /\ UNCHANGED <<suspended, calls, fn_vars, index_vars>>

\* the running worker calls parse_document: objects, traits and refs are
\* created empty; every other local is assigned later in the call
CallParseDocument ==
    /\ pc = "idle"
    /\ calls < MaxCalls
    /\ calls' = calls + 1
    /\ content' \in WorkerDocs
    /\ path' \in Paths
    /\ pc' = "start"
    /\ objects' = <<>>
    /\ traits' = <<>>
    /\ refs' = <<>>
    /\ error' = None
    /\ UNCHANGED <<frontmatter, headings, type_decl_lines, used_ids, parent_stack, hi>>
    /\ UNCHANGED <<suspended, returned, fn_vars, index_vars>>

\* the scheduler runs the other worker
SwitchWorker ==
    /\ suspended' = Frame
    /\ content' = suspended.content
    /\ path' = suspended.path
    /\ pc' = suspended.pc
    /\ frontmatter' = suspended.frontmatter
    /\ headings' = suspended.headings
    /\ type_decl_lines' = suspended.type_decl_lines
    /\ used_ids' = suspended.used_ids
    /\ parent_stack' = suspended.parent_stack
    /\ hi' = suspended.hi
    /\ objects' = suspended.objects
    /\ traits' = suspended.traits
    /\ refs' = suspended.refs
    /\ error' = suspended.error
    /\ UNCHANGED <<returned, calls, fn_vars, index_vars>>

NextWorkers ==
    \/ Next
    \/ ReturnDocument
    \/ CallParseDocument
    \/ SwitchWorker

SpecWorkers == InitWorkers /\ [][NextWorkers]_vars

----------------------------------------------------------------------------
(* The line-level parsers, each on inputs of its own *)

\* no call of parse_document is running
DocIdle ==
    /\ content = <<>>
    /\ path = <<>>
    /\ pc = "idle"
    /\ frontmatter = Frontmatter_default
    /\ headings = <<>>
    /\ type_decl_lines = <<>>
    /\ used_ids = <<>>
    /\ parent_stack = <<>>
    /\ hi = 0
    /\ objects = <<>>
    /\ traits = <<>>
    /\ refs = <<>>
    /\ error = None

\* the texts made of n pieces at most
RECURSIVE PiecesUpTo(_, _)
PiecesUpTo(P, n) ==
    IF n = 0 THEN {<<>>}
    ELSE LET shorter == PiecesUpTo(P, n - 1) IN
         shorter \cup {q \o x : q \in shorter, x \in P}

ValuePieces ==
    { <<"[">>, <<"]">>, <<"[", "[">>, <<"]", "]">>, <<"\"">>, <<",">>, <<" ">>,
      <<"1">>, <<"x">>, <<"T">>, <<"t", "r", "u", "e">>,
      <<"2", "0", "2", "5", "-", "0", "2", "-", "0", "3">> }

\* the locals of parse_arguments, as one record
ArgLocals ==
    [current_key |-> current_key, current_value |-> current_value,
     in_key |-> in_key, in_quotes |-> in_quotes,
     bracket_depth |-> bracket_depth, fields |-> fields]

SetArgLocals(st) ==
    /\ current_key' = st.current_key
    /\ current_value' = st.current_value
    /\ in_key' = st.in_key
    /\ in_quotes' = st.in_quotes
    /\ bracket_depth' = st.bracket_depth
    /\ fields' = st.fields

InitArgs ==
    /\ DocIdle
    /\ OneCall
    /\ IndexIdle
    /\ input \in PiecesUpTo(ValuePieces, MaxValuePieces)
                    \cup SeqsUpTo({"k", "=", ",", "[", "]", "\""}, MaxArgLen)
    /\ line_arg = 0
    /\ fpc = "start"
    /\ current_key = <<>>
    /\ current_value = <<>>
    /\ in_key = TRUE
    /\ in_quotes = FALSE
    /\ bracket_depth = 0
    /\ fields = <<>>
    /\ chars = <<>>
    /\ result = <<>>

\* parse_value(input)
ParseValue ==
    /\ fpc = "start"
    /\ result' = parse_value(input)
    /\ fpc' = "value_done"
    /\ UNCHANGED <<input, line_arg, current_key, current_value, in_key, in_quotes,
                   bracket_depth, fields, chars>>
    /\ UNCHANGED <<doc_vars, worker_vars, index_vars>>

\* parse_trait_arguments(input)
ParseTraitArguments ==
    /\ fpc = "start"
    /\ result' = parse_trait_arguments(input)
    /\ fpc' = "trait_args_done"
    /\ UNCHANGED <<input, line_arg, current_key, current_value, in_key, in_quotes,
                   bracket_depth, fields, chars>>
    /\ UNCHANGED <<doc_vars, worker_vars, index_vars>>

\* parse_arguments(input): nothing but whitespace
ParseArgumentsEmpty ==
    /\ fpc = "start"
    /\ Trim(input) = <<>>
    /\ result' = <<>>
    /\ fpc' = "args_done"
    /\ UNCHANGED <<input, line_arg, current_key, current_value, in_key, in_quotes,
                   bracket_depth, fields, chars>>
    /\ UNCHANGED <<doc_vars, worker_vars, index_vars>>

\* parse_arguments(input): the locals are set up
ParseArgumentsBegin ==
    /\ fpc = "start"
    /\ Trim(input) # <<>>
    /\ SetArgLocals(ArgsStart)
    /\ chars' = input
    /\ fpc' = "args_loop"
    /\ UNCHANGED <<input, line_arg, result>>
    /\ UNCHANGED <<doc_vars, worker_vars, index_vars>>

\* parse_arguments: one character is read
ParseArgumentsStep ==
    /\ fpc = "args_loop"
    /\ chars # <<>>
    /\ SetArgLocals(ArgStep(ArgLocals, Head(chars)))
    /\ chars' = Tail(chars)
    /\ UNCHANGED <<input, line_arg, fpc, result>>
    /\ UNCHANGED <<doc_vars, worker_vars, index_vars>>

\* parse_arguments: the last pair, then Ok(fields)
ParseArgumentsEnd ==
    /\ fpc = "args_loop"
    /\ chars = <<>>
    /\ fields' = InsertPair(ArgLocals)
    /\ result' = InsertPair(ArgLocals)
    /\ fpc' = "args_done"
    /\ UNCHANGED <<input, line_arg, current_key, current_value, in_key, in_quotes,
                   bracket_depth, chars>>
    /\ UNCHANGED <<doc_vars, worker_vars, index_vars>>

NextArgs ==
    \/ ParseValue
    \/ ParseTraitArguments
    \/ ParseArgumentsEmpty
    \/ ParseArgumentsBegin
    \/ ParseArgumentsStep
    \/ ParseArgumentsEnd

SpecArgs == InitArgs /\ [][NextArgs]_vars

TraitPieces ==
    { <<"@", "t">>, <<"(", "k", "=", "1", ")">>,
      <<" ">>, <<"-">>, <<"*">>, <<"x">>, <<"@">>, <<"(">> }

LineNumbers == {1, 10}

InitTraits ==
    /\ DocIdle
    /\ OneCall
    /\ IndexIdle
    /\ input \in PiecesUpTo(TraitPieces, MaxTraitPieces)
    /\ line_arg \in LineNumbers
    /\ fpc = "start"
    /\ current_key = <<>>
    /\ current_value = <<>>
    /\ in_key = TRUE
    /\ in_quotes = FALSE
    /\ bracket_depth = 0
    /\ fields = <<>>
    /\ chars = <<>>
    /\ result = <<>>

\* parse_trait_annotation(input, line_arg)
ParseTraitAnnotation ==
    /\ fpc = "start"
    /\ result' = parse_trait_annotation(input, line_arg)
    /\ fpc' = "traits_done"
    /\ UNCHANGED <<input, line_arg, current_key, current_value, in_key, in_quotes,
                   bracket_depth, fields, chars>>
    /\ UNCHANGED <<doc_vars, worker_vars, index_vars>>

SpecTraits == InitTraits /\ [][ParseTraitAnnotation]_vars

InitRefs ==
    /\ DocIdle
    /\ OneCall
    /\ IndexIdle
    \* "'" stands for the backquote, which a string of this module cannot hold
    /\ input \in PiecesUpTo({<<"[", "[">>, <<"]", "]">>, <<"[">>, <<"]">>, <<"|">>,
                            <<"a">>, <<"'">>, <<"\n">>}, MaxRefPieces)
    /\ line_arg \in LineNumbers
    /\ fpc = "start"
    /\ current_key = <<>>
    /\ current_value = <<>>
    /\ in_key = TRUE
    /\ in_quotes = FALSE
    /\ bracket_depth = 0
    /\ fields = <<>>
    /\ chars = <<>>
    /\ result = <<>>

\* extract_references(input, line_arg)
ExtractReferences ==
    /\ fpc = "start"
    /\ result' = extract_references(input, line_arg)
    /\ fpc' = "refs_done"
    /\ UNCHANGED <<input, line_arg, current_key, current_value, in_key, in_quotes,
                   bracket_depth, fields, chars>>
    /\ UNCHANGED <<doc_vars, worker_vars, index_vars>>

SpecRefs == InitRefs /\ [][ExtractReferences]_vars

----------------------------------------------------------------------------
(* index/database.rs *)

\* DELETE FROM <table> WHERE file_path = ?
DeleteWhere(rows, file_path) == {r \in rows : r.file_path # file_path}

\* variant: only the objects of the file are deleted
DeleteFile_ObjectsOnly(tables, file_path) ==
    [tables EXCEPT !.objects = DeleteWhere(tables.objects, file_path)]

\* the three DELETE statements of index_document
DeleteFile(tables, file_path) ==
    [objects |-> DeleteWhere(tables.objects, file_path),
     traits |-> DeleteWhere(tables.traits, file_path),
     refs |-> DeleteWhere(tables.refs, file_path)]

\* the rows INSERTed for an object, for the trait and for the reference at
\* index idx of the document (timestamps left out; the AUTOINCREMENT id of
\* a reference is rendered by the file and the index)
ObjectRow(file_path, obj) == [id |-> obj.id, file_path |-> file_path, row |-> obj]
ItemRow(file_path, idx, item) ==
    [id |-> <<file_path, idx>>, file_path |-> file_path, row |-> item]
ItemRows(file_path, items) ==
    {ItemRow(file_path, k - 1, items[k]) : k \in 1..Len(items)}

\* id TEXT PRIMARY KEY: an INSERT fails when the id is stored already
HasId(rows, id) == \E r \in rows : r.id = id

\* variant: the writes of a failed transaction stay
Rollback_Keep == db

\* the Transaction is dropped without commit: its writes are undone
Rollback == journal

----------------------------------------------------------------------------
(* cli/commands.rs: reindex and check, run one after the other on a vault *)

\* texts of files: one section; a typed heading, a trait and a reference;
\* a frontmatter block the decoder rejects; two typed headings of one id
GoodTexts == {<<H(1, <<"I">>)>>, <<H(1, <<"I">>), Decl, Text>>}
BadTexts ==
    {<<Delim, YType, Text, Delim>>, <<H(1, <<"I">>), Decl, H(1, <<"I">>), Decl>>}

\* what a path of the vault may hold: no file, an unreadable file, or a
\* file with one of the texts
FilesAt(p, texts) ==
    {<<>>, <<[path |-> p, readable |-> FALSE, text |-> <<>>]>>}
        \cup {<<[path |-> p, readable |-> TRUE, text |-> x]>> : x \in texts}

\* the paths WalkDir yields, in its order: files of extension md; the root
\* object of the second file has the id of an embedded object of the first
VaultPaths ==
    << <<"d", ".", "m", "d">>, <<"d", "#", "i", ".", "m", "d">>,
       <<"n", ".", "m", "d">> >>

\* the vault: schema.yaml absent or defining types and traits, and its files
Vaults ==
    [schema : {"default", "full"},
     files : {a \o b \o c : a \in FilesAt(VaultPaths[1], GoodTexts),
                            b \in FilesAt(VaultPaths[2], GoodTexts \cup BadTexts),
                            c \in FilesAt(VaultPaths[3], GoodTexts)}]

\* the file a vault holds at a path, if any
FileAt(v, p) == {v.files[k] : k \in {j \in 1..Len(v.files) : v.files[j].path = p}}

\* the vaults that differ from v at one path at most
Edited(v) ==
    {w \in Vaults :
        /\ w.schema = v.schema
        /\ Cardinality({k \in 1..Len(VaultPaths) :
                FileAt(w, VaultPaths[k]) # FileAt(v, VaultPaths[k])}) <= 1}

Commands ==
    {[name |-> "reindex", strict |-> FALSE],
     [name |-> "check", strict |-> FALSE], [name |-> "check", strict |-> TRUE]}

\* schema.types and schema.traits after load_schema
SchemaTypes(s) ==
    IF s = "default" THEN {S_page} ELSE {S_page, S_section, S_meeting, S_person}
SchemaTraits(s) == IF s = "default" THEN {} ELSE {S_task}

\* the ERROR lines check prints for an object (no type of the model's
\* schemas defines fields, so validate_fields reports nothing)
ObjectErrors(obj) ==
    (IF obj.object_type \notin SchemaTypes(vault.schema) /\ obj.object_type # S_page
     THEN <<[path |-> path, phase |-> "type"]>> ELSE <<>>)
    \o (IF obj.heading.some /\ ~Contains(obj.id, "#")
        THEN <<[path |-> path, phase |-> "id"]>> ELSE <<>>)

RECURSIVE DocErrors(_)
DocErrors(objs) ==
    IF objs = <<>> THEN <<>> ELSE ObjectErrors(Head(objs)) \o DocErrors(Tail(objs))

\* the locals of parse_document, set from a frame
SetLocals(f) ==
    /\ content' = f.content
    /\ path' = f.path
    /\ pc' = f.pc
    /\ frontmatter' = f.frontmatter
    /\ headings' = f.headings
    /\ type_decl_lines' = f.type_decl_lines
    /\ used_ids' = f.used_ids
    /\ parent_stack' = f.parent_stack
    /\ hi' = f.hi
    /\ objects' = f.objects
    /\ traits' = f.traits
    /\ refs' = f.refs
    /\ error' = f.error

\* variant: the loop ends at the first file that fails
AfterFailure_Abort(i) == Len(vault.files)

\* continue: the walk goes on with the next file
AfterFailure(i) == i + 1

InitIndex ==
    /\ DocIdle
    /\ OneCall
    /\ FnIdle
    /\ vault \in Vaults
    /\ cmd \in Commands
    /\ ipc = "open"
    /\ ri = 0
    /\ file_count = 0
    /\ error_count = 0
    /\ warnings = 0
    /\ log = <<>>
    /\ db = EmptyTables
    /\ journal = EmptyTables
    /\ ins = 0
    /\ report = <<>>
    /\ runs = 1

\* load_schema(vault_path)? and, for reindex, Database::open(vault_path)?
OpenVault ==
    /\ ipc = "open"
    /\ ipc' = "walk"
    /\ UNCHANGED <<vault, cmd, ri, file_count, error_count, warnings, log, db,
                   journal, ins, report, runs>>
    /\ UNCHANGED <<doc_vars, worker_vars, fn_vars>>

\* the schema or the database cannot be opened: the command returns Err
OpenVaultErr ==
    /\ ipc = "open"
    /\ ipc' = "failed"
    /\ report' = <<"Err">>
    /\ UNCHANGED <<vault, cmd, ri, file_count, error_count, warnings, log, db,
                   journal, ins, runs>>
    /\ UNCHANGED <<doc_vars, worker_vars, fn_vars>>

\* std::fs::read_to_string(file_path) fails
ReadFileErr ==
    /\ ipc = "walk"
    /\ ri < Len(vault.files)
    /\ ~vault.files[ri + 1].readable
    /\ file_count' = IF cmd.name = "check" THEN file_count + 1 ELSE file_count
    /\ log' = Append(log, [path |-> vault.files[ri + 1].path, phase |-> "read"])
    /\ error_count' = error_count + 1
    /\ ri' = AfterFailure(ri)
    /\ UNCHANGED <<vault, cmd, ipc, warnings, db, journal, ins, report, runs>>
    /\ UNCHANGED <<doc_vars, worker_vars, fn_vars>>

\* the file is read and parse_document is called on its text
ReadFileOk ==
    /\ ipc = "walk"
    /\ ri < Len(vault.files)
    /\ vault.files[ri + 1].readable
    /\ file_count' = IF cmd.name = "check" THEN file_count + 1 ELSE file_count
    /\ SetLocals([IdleFrame EXCEPT !.content = vault.files[ri + 1].text,
                                   !.path = vault.files[ri + 1].path,
                                   !.pc = "start"])
    /\ ipc' = "parse"
    /\ UNCHANGED <<vault, cmd, ri, error_count, warnings, log, db, journal, ins,
                   report, runs>>
    /\ UNCHANGED <<worker_vars, fn_vars>>

\* parse_document returned Err
ParseFileErr ==
    /\ ipc = "parse"
    /\ pc = "error"
    /\ log' = Append(log, [path |-> path, phase |-> "parse"])
    /\ error_count' = error_count + 1
    /\ ri' = AfterFailure(ri)
    /\ ipc' = "walk"
    /\ SetLocals(IdleFrame)
    /\ UNCHANGED <<vault, cmd, file_count, warnings, db, journal, ins, report, runs>>
    /\ UNCHANGED <<worker_vars, fn_vars>>

\* check: the objects and traits of the document are validated
ValidateDocument ==
    /\ cmd.name = "check"
    /\ ipc = "parse"
    /\ pc = "done"
    /\ log' = log \o DocErrors(objects)
    /\ error_count' = error_count + Len(DocErrors(objects))
    /\ warnings' = warnings + Cardinality({k \in 1..Len(traits) :
                        traits[k].trait_type \notin SchemaTraits(vault.schema)})
    /\ ri' = ri + 1
    /\ ipc' = "walk"
    /\ SetLocals(IdleFrame)
    /\ UNCHANGED <<vault, cmd, file_count, db, journal, ins, report, runs>>
    /\ UNCHANGED <<worker_vars, fn_vars>>

\* index_document: the transaction begins and the rows of the file are deleted
BeginIndex ==
    /\ cmd.name = "reindex"
    /\ ipc = "parse"
    /\ pc = "done"
    /\ journal' = db
    /\ db' = DeleteFile(db, path)
    /\ ins' = 0
    /\ ipc' = "objects"
    /\ UNCHANGED <<vault, cmd, ri, file_count, error_count, warnings, log, report, runs>>
    /\ UNCHANGED <<doc_vars, worker_vars, fn_vars>>

\* one turn of the loop over doc.objects
InsertObject ==
    /\ ipc = "objects"
    /\ ins < Len(objects)
    /\ ~HasId(db.objects, objects[ins + 1].id)
    /\ db' = [db EXCEPT !.objects = @ \cup {ObjectRow(path, objects[ins + 1])}]
    /\ ins' = ins + 1
    /\ UNCHANGED <<vault, cmd, ipc, ri, file_count, error_count, warnings, log,
                   journal, report, runs>>
    /\ UNCHANGED <<doc_vars, worker_vars, fn_vars>>

\* the loops over doc.traits and doc.refs
InsertTraitsAndRefs ==
    /\ ipc = "objects"
    /\ ins = Len(objects)
    /\ \A r \in ItemRows(path, traits) : ~HasId(db.traits, r.id)
    /\ db' = [db EXCEPT !.traits = @ \cup ItemRows(path, traits),
                        !.refs = @ \cup ItemRows(path, refs)]
    /\ ipc' = "commit"
    /\ UNCHANGED <<vault, cmd, ri, file_count, error_count, warnings, log,
                   journal, ins, report, runs>>
    /\ UNCHANGED <<doc_vars, worker_vars, fn_vars>>

\* tx.commit() succeeds and reindex counts the file
CommitIndex ==
    /\ ipc = "commit"
    /\ journal' = EmptyTables
    /\ ins' = 0
    /\ file_count' = file_count + 1
    /\ ri' = ri + 1
    /\ ipc' = "walk"
    /\ SetLocals(IdleFrame)
    /\ UNCHANGED <<vault, cmd, error_count, warnings, log, db, report, runs>>
    /\ UNCHANGED <<worker_vars, fn_vars>>

\* a statement of index_document fails (an id is stored already, or the
\* database reports an error): the transaction is dropped, reindex counts
\* the error
IndexErr ==
    /\ \/ ipc = "objects" /\ ins < Len(objects)
          /\ HasId(db.objects, objects[ins + 1].id)
       \/ ipc = "objects" /\ ins = Len(objects)
          /\ \E r \in ItemRows(path, traits) : HasId(db.traits, r.id)
       \/ ipc = "commit"
    /\ db' = Rollback
    /\ journal' = EmptyTables
    /\ ins' = 0
    /\ log' = Append(log, [path |-> path, phase |-> "index"])
    /\ error_count' = error_count + 1
    /\ ri' = AfterFailure(ri)
    /\ ipc' = "walk"
    /\ SetLocals(IdleFrame)
    /\ UNCHANGED <<vault, cmd, file_count, warnings, report, runs>>
    /\ UNCHANGED <<worker_vars, fn_vars>>

\* the walk is over: reindex prints the counts and db.stats(), check prints
\* its counts and exits with 1 on errors (on warnings too when strict)
FinishCommand ==
    /\ ipc = "walk"
    /\ ri >= Len(vault.files)
    /\ ipc' = "done"
    /\ report' =
        IF cmd.name = "reindex"
        THEN [files |-> file_count, errors |-> error_count,
              object_count |-> Cardinality(db.objects),
              trait_count |-> Cardinality(db.traits),
              ref_count |-> Cardinality(db.refs)]
        ELSE [files |-> file_count, errors |-> error_count, warnings |-> warnings,
              exit |-> IF error_count > 0 \/ (cmd.strict /\ warnings > 0)
                       THEN 1 ELSE 0]
    /\ UNCHANGED <<vault, cmd, ri, file_count, error_count, warnings, log, db,
                   journal, ins, runs>>
    /\ UNCHANGED <<doc_vars, worker_vars, fn_vars>>

\* a file is added, changed or removed, or none is, and another command is run
RunAgain ==
    /\ ipc \in {"done", "failed"}
    /\ runs < MaxRuns
    /\ runs' = runs + 1
    /\ vault' \in Edited(vault)
    /\ cmd' \in Commands
    /\ ipc' = "open"
    /\ ri' = 0
    /\ file_count' = 0
    /\ error_count' = 0
    /\ warnings' = 0
    /\ log' = <<>>
    /\ report' = <<>>
    /\ UNCHANGED <<db, journal, ins>>
    /\ UNCHANGED <<doc_vars, worker_vars, fn_vars>>

NextIndex ==
    \/ Next
    \/ OpenVault
    \/ OpenVaultErr
    \/ ReadFileErr
    \/ ReadFileOk
    \/ ParseFileErr
    \/ ValidateDocument
    \/ BeginIndex
    \/ InsertObject
    \/ InsertTraitsAndRefs
    \/ CommitIndex
    \/ IndexErr
    \/ FinishCommand
    \/ RunAgain

SpecIndex == InitIndex /\ [][NextIndex]_vars

----------------------------------------------------------------------------
(* Properties *)

Returned == pc = "done"

NonRoot == 2..Len(objects)

\* the heading level of an object, the root counting as level 0
LevelOf(o) == IF o.heading_level.some THEN o.heading_level.n ELSE 0

\* line numbers of the body's heading lines, and whether a valid type
\* declaration stands on the line after
BodyLineNums == (frontmatter.end_line + 1)..Len(content)
HeadingLineNums == {ln \in BodyLineNums : content[ln].kind = "heading"}
DeclFollows(ln) == ln + 1 <= Len(content) /\ content[ln + 1].kind = "decl"

\* the objects a heading line gave rise to
ObjectsOfLine(ln) == {k \in NonRoot : objects[k].line_start = ln}

\* C1: after parse_document no two objects of the document have the same id.
C1_UniqueIds ==
    Returned =>
        \A a, b \in 1..Len(objects) : a # b => objects[a].id # objects[b].id

\* the untyped headings among the first h headings that share heading h's slug
SameSlugBefore(h) ==
    {g \in 1..h :
        /\ ~DeclFollows(headings[g].line)
        /\ CandidateSlug(headings[g]) = CandidateSlug(headings[h])}

\* C2: among the headings without a type declaration that share a slug s, the
\* first in document order gets id fileId#s and the k-th (k >= 2) gets
\* fileId#s-k, whatever their levels and whatever stands between them.
C2_SuffixByAppearance ==
    Returned =>
        \A h \in 1..Len(headings) :
            ~DeclFollows(headings[h].line) =>
                LET s == CandidateSlug(headings[h])
                    k == Cardinality(SameSlugBefore(h))
                IN objects[h + 1].id =
                     file_id \o <<"#">> \o (IF k = 1 THEN s ELSE s \o <<"-">> \o Dec(k))

C2_Witness ==
    /\ Returned
    /\ \E g, h \in 1..Len(headings) :
        /\ g + 1 < h
        /\ g \in SameSlugBefore(h)
        /\ headings[g].level # headings[h].level
        /\ Cardinality(SameSlugBefore(h)) = 2
        /\ objects[h + 1].id = objects[g + 1].id \o <<"-", "2">>

TypedAsDeclared(ln) ==
    /\ Cardinality(ObjectsOfLine(ln)) = 1
    /\ \A k \in ObjectsOfLine(ln) :
        /\ objects[k].id = file_id \o <<"#">> \o content[ln + 1].id
        /\ objects[k].object_type = content[ln + 1].tname
        /\ objects[k].fields = content[ln + 1].fields
        /\ objects[k].object_type # S_section

\* C3 as stated: every heading whose next line is a valid type declaration
\* yields exactly one object, with id fileId#X verbatim, the declared type and
\* the declared fields, and no section object.
C3_EveryHeadingTyped ==
    Returned =>
        \A ln \in HeadingLineNums : DeclFollows(ln) => TypedAsDeclared(ln)

\* C3 amended: every heading with non-empty text whose next line is a valid
\* type declaration yields exactly one object, with id fileId#X verbatim, the
\* declared type and the declared fields, and no section object.
C3_NonEmptyHeadingTyped ==
    Returned =>
        \A ln \in HeadingLineNums :
            (content[ln].text # <<>> /\ DeclFollows(ln)) => TypedAsDeclared(ln)

C3_Witness ==
    /\ Returned
    /\ \E ln \in HeadingLineNums :
        /\ content[ln].text # <<>>
        /\ DeclFollows(ln)
        /\ slugify(content[ln].text) = content[ln + 1].id
        /\ \E other \in HeadingLineNums : other < ln /\ ~DeclFollows(other)
                /\ slugify(content[other].text) = content[ln + 1].id

\* the section id of a heading line before collision suffixing
SectionBaseId(ln) ==
    file_id \o <<"#">> \o
        (IF slugify(content[ln].text) = <<>>
         THEN S_section \o <<"-">> \o Dec(ln)
         ELSE slugify(content[ln].text))

\* C4: every heading with non-empty text whose next line is no type
\* declaration yields exactly one object: type "section", id
\* fileId#slug(text) (fileId#section-<line> for an empty slug) up to the
\* collision suffix, heading text and level copied, fields {title, level}.
C4_SectionObject ==
    Returned =>
        \A ln \in HeadingLineNums :
            (content[ln].text # <<>> /\ ~DeclFollows(ln)) =>
                /\ Cardinality(ObjectsOfLine(ln)) = 1
                /\ \A k \in ObjectsOfLine(ln) :
                    /\ objects[k].object_type = S_section
                    /\ \/ objects[k].id = SectionBaseId(ln)
                       \/ \E c \in 2..Len(content) :
                            objects[k].id = SectionBaseId(ln) \o <<"-">> \o Dec(c)
                    /\ objects[k].heading = SomeS(content[ln].text)
                    /\ objects[k].heading_level = SomeN(content[ln].level)
                    /\ objects[k].fields =
                         [title |-> FString(content[ln].text),
                          level |-> FNumber(content[ln].level)]

C4_Witness ==
    /\ Returned
    /\ \E a, b \in HeadingLineNums :
        /\ ~DeclFollows(a) /\ ~DeclFollows(b)
        /\ content[a].text # <<>> /\ slugify(content[a].text) = <<>>
        /\ content[b].text # <<>> /\ slugify(content[b].text) # <<>>
        /\ \E k \in ObjectsOfLine(b) : objects[k].id # SectionBaseId(b)

\* C5: the object at index 0 of a returned document is the root: its id is
\* the relative path without .md, it has no parent and no heading, its start
\* line is 1 and its end line is unset.
C5_RootObject ==
    Returned =>
        /\ Len(objects) >= 1
        /\ objects[1].id = StripMd(path)
        /\ objects[1].parent_id = None
        /\ objects[1].heading = None
        /\ objects[1].heading_level = None
        /\ objects[1].line_start = 1
        /\ objects[1].line_end = None

\* the non-root object that starts next after object a
NextByStart(a, b) ==
    /\ objects[a].line_start < objects[b].line_start
    /\ ~\E c \in NonRoot :
          /\ objects[a].line_start < objects[c].line_start
          /\ objects[c].line_start < objects[b].line_start

LastLine(o) == IF o.line_end.some THEN o.line_end.n ELSE Len(content) + 1

\* C6: of the non-root objects in order of start line, each ends exactly one
\* line before the next starts, the last has no end line, and the line
\* ranges of distinct non-root objects are disjoint.
C6_LineRanges ==
    Returned =>
        /\ \A a, b \in NonRoot :
              NextByStart(a, b) =>
                  objects[a].line_end = SomeN(objects[b].line_start - 1)
        /\ \A a \in NonRoot :
              (\A b \in NonRoot : objects[b].line_start <= objects[a].line_start)
                  => objects[a].line_end = None
        /\ \A a, b \in NonRoot :
              a # b =>
                  \/ LastLine(objects[a]) < objects[b].line_start
                  \/ LastLine(objects[b]) < objects[a].line_start

C6_Witness ==
    /\ Returned
    /\ \E a, b \in NonRoot :
        /\ NextByStart(a, b)
        /\ objects[b].line_start > objects[a].line_start + 1
        /\ objects[b].line_end = None

\* the (line, parent id) pairs of the traits and of the references
Bindings ==
    {[line |-> traits[k].line, owner |-> traits[k].parent_object_id] :
        k \in 1..Len(traits)}
    \cup {[line |-> refs[k].line, owner |-> refs[k].source_id] : k \in 1..Len(refs)}

RootFallback(x) ==
    (~\E k \in NonRoot : objects[k].line_start <= x.line) => x.owner = objects[1].id

\* C7 as stated: the line of every trait and reference lies in the half-open
\* range [start, end) of the object named as its parent (no end: to the end
\* of the file), and the parent is the root when no heading object starts at
\* or before the line.
C7_HalfOpenContainment ==
    Returned =>
        \A x \in Bindings :
            /\ \E k \in 1..Len(objects) :
                /\ objects[k].id = x.owner
                /\ objects[k].line_start <= x.line
                /\ objects[k].line_end.some => x.line < objects[k].line_end.n
            /\ RootFallback(x)

\* C7 amended: the line of every trait and reference lies in the closed range
\* [start, end] of an object whose id is its parent id (no end: to the end of
\* the file), and the parent is the root when no heading object starts at or
\* before the line.
C7_ClosedContainment ==
    Returned =>
        \A x \in Bindings :
            /\ \E k \in 1..Len(objects) :
                /\ objects[k].id = x.owner
                /\ objects[k].line_start <= x.line
                /\ objects[k].line_end.some => x.line <= objects[k].line_end.n
            /\ RootFallback(x)

C7_Witness ==
    /\ Returned
    /\ traits # <<>> /\ refs # <<>>
    /\ \E x \in Bindings : \E k \in NonRoot :
        /\ objects[k].id = x.owner
        /\ objects[k].line_end.some
        /\ x.line = objects[k].line_end.n

\* the ids reachable from id x by following parent ids, n steps at most
RECURSIVE ParentClosure(_, _)
ParentClosure(S, n) ==
    IF n = 0 THEN S
    ELSE ParentClosure(
            S \cup {objects[k].parent_id.s :
                        k \in {j \in NonRoot : objects[j].id \in S}},
            n - 1)

ParentIdsOf(x) ==
    ParentClosure({objects[k].parent_id.s : k \in {j \in NonRoot : objects[j].id = x}},
                  Len(objects))

\* C8: every non-root object has a parent id, which is the id of an earlier
\* object of strictly smaller heading level (the root has level 0), and
\* following parent ids never comes back to the id it started from.
C8_ParentForest ==
    Returned =>
        /\ objects[1].parent_id = None
        /\ \A k \in NonRoot :
            /\ objects[k].parent_id.some
            /\ \E j \in 1..(k - 1) :
                /\ objects[j].id = objects[k].parent_id.s
                /\ LevelOf(objects[j]) < LevelOf(objects[k])
            /\ objects[k].id \notin ParentIdsOf(objects[k].id)

ExactDelim(l) == l.kind = "delim" /\ ~l.ws

NoFrontmatterReported ==
    /\ pc # "error"
    /\ frontmatter = Frontmatter_default
    /\ body_lines = content
    /\ content_start_line = 1

C11_MalformedDeclFails ==
    Returned => ~\E ln \in BodyLineNums : content[ln].kind = "baddecl"

\* a block is detected: the first line is --- and a later line is --- (after
\* trimming)
BlockDetected ==
    /\ content # <<>>
    /\ content[1].kind = "delim"
    /\ \E k \in 2..Len(content) : content[k].kind = "delim"

BlockLines ==
    LET close == Min({k \in 2..Len(content) : content[k].kind = "delim"})
    IN {k \in 2..(close - 1) : TRUE}

\* the block is no mapping: an entry stands beside a plain scalar, or a key
\* is repeated
InvalidMapping ==
    \/ \E a, b \in BlockLines :
            content[a].kind = "yaml" /\ content[b].kind \in {"text", "decl"}
    \/ \E a, b \in BlockLines :
            /\ a # b
            /\ content[a].kind = "yaml" /\ content[b].kind = "yaml"
            /\ content[a].key = content[b].key

RECURSIVE TagTokens(_, _)
TagTokens(s, cur) ==
    LET strip == IF cur # <<>> /\ Head(cur) = "#" THEN Tail(cur) ELSE cur
        done == IF strip = <<>> THEN <<>> ELSE <<strip>>
    IN IF s = <<>> THEN done
       ELSE IF Head(s) \in {",", " "} THEN done \o TagTokens(Tail(s), <<>>)
       ELSE TagTokens(Tail(s), Append(cur, Head(s)))

\* C15 as stated: a tags entry that is one string yields one tag per token of
\* the string (cut at commas and spaces, leading # taken off), and one that
\* is a sequence of strings yields those strings in order.
C15_TagsFromStringOrSequence ==
    (pc \notin {"start", "error"} /\ frontmatter.end_line > 0) =>
        \A k \in 2..(frontmatter.end_line - 1) :
            (content[k].kind = "yaml" /\ content[k].key = "tags") =>
                frontmatter.tags =
                    IF content[k].isSeq THEN content[k].items
                    ELSE TagTokens(content[k].items[1], <<>>)

\* a sequence without its repeated elements, the first of each kept
RECURSIVE KeepFirst(_, _)
KeepFirst(seq, seen) ==
    IF seq = <<>> THEN <<>>
    ELSE IF Head(seq) \in seen THEN KeepFirst(Tail(seq), seen)
    ELSE <<Head(seq)>> \o KeepFirst(Tail(seq), seen \cup {Head(seq)})

\* the inline tags of the body lines, in order of appearance
RECURSIVE BodyTagsFrom(_)
BodyTagsFrom(ln) ==
    IF ln > Len(content) THEN <<>> ELSE content[ln].hashtags \o BodyTagsFrom(ln + 1)

\* C16 as stated: the root's tag list is the frontmatter tags followed by the
\* inline tags of the body, without duplicates, in order of first appearance.
C16_RootTagsInOrder ==
    Returned =>
        objects[1].tags =
            KeepFirst(frontmatter.tags \o BodyTagsFrom(frontmatter.end_line + 1), {})

\* a FieldValue, and not the mark of a panic, all the way down
RECURSIVE IsFieldValue(_)
IsFieldValue(v) ==
    /\ v.t \in {"String", "Number", "Bool", "Date", "Datetime", "Ref", "Array", "Null"}
    /\ \A k \in 1..Len(v.items) : IsFieldValue(v.items[k])

\* the fragment has none of the shapes that parse_value tests before its
\* fallback
NoEarlierRule(s) ==
    /\ s # <<>>
    /\ ~(Head(s) = "[" /\ s[Len(s)] = "]")
    /\ ~(Len(s) >= 2 /\ Head(s) = "\"" /\ s[Len(s)] = "\"")
    /\ s \notin {<<"t", "r", "u", "e">>, <<"f", "a", "l", "s", "e">>}
    /\ ~ParsesAsF64(s)
    /\ ~(Len(s) >= 10 /\ (\A k \in 1..4 : IsDigit(s[k]))
            /\ (Len(s) = 10 \/ Contains(s, "T")))

\* C13: parse_value returns a value for every string, Null for the empty
\* fragment and String of the fragment when no earlier rule matches, and
\* parse_arguments and the parsing of trait arguments return a field map
\* whose values are all values.
C13_ValueCoercionTotal ==
    /\ fpc = "value_done" =>
            /\ IsFieldValue(result)
            /\ Trim(input) = <<>> => result = FNull
            /\ NoEarlierRule(Trim(input)) => result = FString(Trim(input))
    /\ fpc = "args_done" =>
            \A k \in DOMAIN result : IsFieldValue(result[k])
    /\ fpc = "trait_args_done" =>
            /\ result.ok
            /\ \A k \in DOMAIN result.fields : IsFieldValue(result.fields[k])

C13_Witness ==
    /\ fpc = "value_done"
    /\ input = <<"[", "\"">>
    /\ result = FString(input)

\* the position, in the argument string, of the character read next
ReadPos == Len(input) - Len(chars) + 1

QuotesBefore(s, p) == Cardinality({k \in 1..(p - 1) : s[k] = "\""})

\* position p lies between an opening quote and its closing quote
InQuotedString(s, p) ==
    /\ s[p] # "\""
    /\ QuotesBefore(s, p) % 2 = 1
    /\ \E k \in (p + 1)..Len(s) : s[k] = "\""

\* a bracket that is no text of a quoted string
Bracket(s, k, b) == s[k] = b /\ QuotesBefore(s, k) % 2 = 0

BracketsIn(s, from, to, b) == Cardinality({k \in from..to : Bracket(s, k, b)})

\* the ] that closes the [ at position i, 0 when it is never closed
MatchingClose(s, i) ==
    LET closes == {j \in (i + 1)..Len(s) :
                      /\ Bracket(s, j, "]")
                      /\ BracketsIn(s, i + 1, j - 1, "[") = BracketsIn(s, i + 1, j - 1, "]")}
    IN IF closes = {} THEN 0 ELSE Min(closes)

\* position p lies between a [ and the ] that closes it
InArray(s, p) ==
    \E i \in 1..(p - 1) : Bracket(s, i, "[") /\ MatchingClose(s, i) > p

\* the character read is kept as text of the key or of the value
KeptAsText(c) ==
    /\ fields' = fields
    /\ in_key' = in_key
    /\ IF in_key
       THEN current_key' = Append(current_key, c) /\ current_value' = current_value
       ELSE current_value' = Append(current_value, c) /\ current_key' = current_key

\* C14 as stated: while parse_arguments reads the argument string, a "," or
\* "=" that lies inside a quoted string or inside a bracketed array neither
\* ends the pair nor switches from key to value.
C14_NoDelimiterInsideQuotesOrArray ==
    [][(/\ fpc = "args_loop"
        /\ chars # <<>>
        /\ Head(chars) \in {",", "="}
        /\ InQuotedString(input, ReadPos) \/ InArray(input, ReadPos))
            => KeptAsText(Head(chars))]_vars

\* the line of the text on which the k-th reference returned was found
RefLine(k) == StrLines(input, <<>>)[result[k].line - line_arg + 1]

\* C17 as stated: the target of every reference extracted from a line holds
\* none of [ ] |, and a [[ that stands right after a [ starts no reference
\* whose target begins with [.
C17_TargetWithoutBrackets ==
    fpc = "refs_done" =>
        \A k \in 1..Len(result) :
            /\ \A j \in 1..Len(result[k].target) :
                    result[k].target[j] \notin {"[", "]", "|"}
            /\ (result[k].start > 0 /\ RefLine(k)[result[k].start] = "[")
                    => Head(result[k].target) # "["

\* the position of the @ of the k-th trait returned
TraitAt(k) ==
    IF input[result[k].start_offset + 1] = "@" THEN result[k].start_offset + 1
    ELSE result[k].start_offset + 2

\* the @ that stand at the start of the line or after whitespace, - or *
AllowedAt ==
    {p \in 1..Len(input) :
        input[p] = "@" /\ (p = 1 \/ input[p - 1] \in {" ", "-", "*"})}

\* the annotation whose @ is at position p: the end of its name, the
\* parentheses of its argument list (0: none), and its end
AnnNameEnd(p) ==
    Max({p} \cup {k \in (p + 1)..Len(input) :
                    \A j \in (p + 1)..k : IsWordChar(input[j])})
AnnOpen(p) ==
    LET rest == {k \in (AnnNameEnd(p) + 1)..Len(input) : input[k] # " "}
    IN IF rest # {} /\ input[Min(rest)] = "("
          /\ \E r \in (Min(rest) + 1)..Len(input) : input[r] = ")"
       THEN Min(rest) ELSE 0
AnnClose(p) == Min({r \in (AnnOpen(p) + 1)..Len(input) : input[r] = ")"})
AnnEnd(p) == IF AnnOpen(p) = 0 THEN AnnNameEnd(p) ELSE AnnClose(p)
AnnArgs(p) ==
    IF AnnOpen(p) = 0 THEN <<>> ELSE SubSeq(input, AnnOpen(p) + 1, AnnClose(p) - 1)

\* the annotations of the line: an allowed @ with a name, outside the
\* argument list of an annotation to its left
RECURSIVE AnnotationsFrom(_)
AnnotationsFrom(from) ==
    LET next == {p \in AllowedAt : p >= from /\ AnnNameEnd(p) > p} IN
    IF next = {} THEN <<>>
    ELSE <<Min(next)>> \o AnnotationsFrom(AnnEnd(Min(next)) + 1)

\* C18: every annotation @name or @name(args) of a line yields one trait,
\* in left-to-right order, with the name, the fields that parse_arguments
\* gives for args (none without an argument list), the line number, and as
\* content the trimmed rest of the line after the annotation.
C18_OneTraitPerAnnotation ==
    fpc = "traits_done" =>
        LET anns == AnnotationsFrom(1) IN
        /\ Len(result) = Len(anns)
        /\ \A k \in 1..Len(anns) :
            LET p == anns[k] IN
            /\ TraitAt(k) = p
            /\ result[k].trait_name = SubSeq(input, p + 1, AnnNameEnd(p))
            /\ result[k].fields = parse_arguments(AnnArgs(p))
            /\ result[k].line = line_arg
            /\ result[k].content = Trim(SubSeq(input, AnnEnd(p) + 1, Len(input)))

C18_Witness ==
    /\ fpc = "traits_done"
    /\ Len(result) = 2
    /\ DOMAIN result[1].fields # {}
    /\ result[1].content = <<"@", "t">>
    /\ result[2].fields = <<>>
    /\ result[2].line = 10

\* C19: every trait returned for a line belongs to an @ that stands at the
\* start of the line or right after whitespace, - or *; an @ after any other
\* character yields no trait, and a line without such a token yields none.
C19_TraitNeedsBoundary ==
    fpc = "traits_done" =>
        /\ \A k \in 1..Len(result) : TraitAt(k) \in AllowedAt
        /\ \A j, k \in 1..Len(result) : j # k => TraitAt(j) # TraitAt(k)
        /\ {p \in AllowedAt : p < Len(input) /\ IsWordChar(input[p + 1])} = {}
                => result = <<>>

C19_Witness ==
    /\ fpc = "traits_done"
    /\ Len(result) = 1
    /\ \E p \in 2..(Len(input) - 1) :
            input[p] = "@" /\ input[p - 1] = "x" /\ IsWordChar(input[p + 1])

\* C20: the result of parse_document depends only on the text and the path
\* given: whatever was parsed before a call or is being parsed beside it, on
\* either worker, two calls with the same text and path return equal results.
C20_ResultDependsOnInputOnly ==
    \A j, k \in 1..Len(returned) :
        (returned[j].content = returned[k].content /\ returned[j].path = returned[k].path)
            => returned[j].result = returned[k].result

\* the same document returned twice with another document, one with
\* sections of its own, returned between the two
C20_Witness ==
    /\ Len(returned) = 3
    /\ returned[1].content = returned[3].content
    /\ returned[1].path = returned[3].path
    /\ returned[2].content # returned[1].content
    /\ returned[2].result.ok /\ Len(returned[2].result.objects) > 1
    /\ returned[3].result.ok /\ Len(returned[3].result.objects) = 3

C24_UniqueStartLines ==
    Returned =>
        \A j, k \in 1..Len(objects) :
            j # k => objects[j].line_start # objects[k].line_start

\* the fragment is [[x]] with no bracket in x
PlainReference(s) ==
    /\ Len(s) >= 4
    /\ SubSeq(s, 1, 2) = <<"[", "[">>
    /\ SubSeq(s, Len(s) - 1, Len(s)) = <<"]", "]">>
    /\ \A k \in 3..(Len(s) - 2) : s[k] \notin {"[", "]"}

\* C25 as stated: parse_value returns Reference(x) exactly for the fragments
\* [[x]] in which x holds no bracket; every other fragment that starts with
\* [ and ends with ] becomes the Array of its coerced top-level segments,
\* without the Null items of empty segments.
C25_ReferenceOrArray ==
    fpc = "value_done" =>
        LET s == Trim(input) IN
        /\ result.t = "Ref" <=> PlainReference(s)
        /\ PlainReference(s) => result = FRef(SubSeq(s, 3, Len(s) - 2))
        /\ (s # <<>> /\ Head(s) = "[" /\ s[Len(s)] = "]" /\ ~PlainReference(s))
                => result = ArrayOf(parse_array_items(SubSeq(s, 2, Len(s) - 1)))

\* four digits, -, two digits, -, two digits
DateShape(s) ==
    /\ Len(s) = 10
    /\ \A k \in {1, 2, 3, 4, 6, 7, 9, 10} : IsDigit(s[k])
    /\ s[5] = "-" /\ s[8] = "-"

\* C26 as stated: parse_value returns Date only for fragments of the shape
\* dddd-dd-dd, Datetime only for fragments with a T and 16 characters or
\* more, and String for every other fragment that none of the rules before
\* the date rule matches.
C26_DateAndDatetimeShapes ==
    fpc = "value_done" =>
        LET s == Trim(input) IN
        /\ result.t = "Date" => DateShape(s)
        /\ result.t = "Datetime" => (Contains(s, "T") /\ Len(s) >= 16)
        /\ ( /\ s # <<>>
             /\ ~(Head(s) = "[" /\ s[Len(s)] = "]")
             /\ ~(Len(s) >= 2 /\ Head(s) = "\"" /\ s[Len(s)] = "\"")
             /\ s \notin {<<"t", "r", "u", "e">>, <<"f", "a", "l", "s", "e">>}
             /\ ~ParsesAsF64(s)
             /\ ~DateShape(s)
             /\ ~(Contains(s, "T") /\ Len(s) >= 16) )
                => result = FString(s)

\* C27: every reference returned has 0 <= start < end <= length of its
\* line, the text of the line from start to end is the whole wikilink
\* [[target]] or [[target|display]], and its line is start_line plus the
\* index of that line in the text.
C27_OffsetsWithinLine ==
    fpc = "refs_done" =>
        \A k \in 1..Len(result) :
            LET r == result[k] IN
            /\ r.line - line_arg \in 0..(Len(StrLines(input, <<>>)) - 1)
            /\ 0 <= r.start /\ r.start < r.end /\ r.end <= Len(RefLine(k))
            /\ SubSeq(RefLine(k), r.start + 1, r.end) =
                    <<"[", "[">> \o r.target
                        \o (IF r.display_text.some THEN <<"|">> \o r.display_text.s
                            ELSE <<>>)
                        \o <<"]", "]">>
            /\ \A j \in 1..(k - 1) :
                    \/ result[j].line < r.line
                    \/ result[j].line = r.line /\ result[j].end <= r.start

C27_Witness ==
    /\ fpc = "refs_done"
    /\ Len(result) = 1
    /\ result[1].line = line_arg + 1
    /\ result[1].start = 1 /\ result[1].end = 6

\* position p of the line lies between two backquotes (written "'")
InCodeSpan(line, p) ==
    /\ Cardinality({k \in 1..(p - 1) : line[k] = "'"}) % 2 = 1
    /\ \E k \in (p + 1)..Len(line) : line[k] = "'"

\* C28 as stated: a [[target]] inside a code span yields no reference.
C28_NoReferenceInsideCode ==
    fpc = "refs_done" =>
        \A k \in 1..Len(result) : ~InCodeSpan(RefLine(k), result[k].start + 1)

\* the rows a table holds for a file, and for the other files
RowsOf(rows, file_path) == {r \in rows : r.file_path = file_path}

\* the entries the command logged for a file, as their phases
Phases(p) ==
    LET e == SelectSeq(log, LAMBDA x : x.path = p)
    IN [k \in 1..Len(e) |-> e[k].phase]

\* C22: when index_document commits, the rows stored for doc.file_path are
\* the rows of the objects, traits and refs of the document passed, and the
\* rows of every other file path are those stored before the call
C22_ReplacesRowsOfFile ==
    [][(ipc = "commit" /\ file_count' = file_count + 1) =>
        /\ RowsOf(db'.objects, path) =
                {ObjectRow(path, objects[k]) : k \in 1..Len(objects)}
        /\ RowsOf(db'.traits, path) = ItemRows(path, traits)
        /\ RowsOf(db'.refs, path) = ItemRows(path, refs)
        /\ DeleteWhere(db'.objects, path) = DeleteWhere(journal.objects, path)
        /\ DeleteWhere(db'.traits, path) = DeleteWhere(journal.traits, path)
        /\ DeleteWhere(db'.refs, path) = DeleteWhere(journal.refs, path)]_vars

\* a file indexed with a trait is indexed again without one, beside the rows
\* of another file
C22_Witness ==
    /\ ipc = "commit"
    /\ traits = <<>>
    /\ RowsOf(journal.traits, path) # {}
    /\ RowsOf(db.traits, path) = {}
    /\ DeleteWhere(journal.objects, path) # {}

\* C29: when a call of index_document fails, the tables are those of the
\* start of the call
C29_FailureCommitsNothing ==
    [][(ipc \in {"objects", "commit"} /\ error_count' = error_count + 1) =>
        db' = journal]_vars

\* index_document has failed on a file whose rows of an earlier run it had
\* deleted, and the rows are stored
C29_Witness ==
    /\ ipc = "walk"
    /\ log # <<>>
    /\ log[Len(log)].phase = "index"
    /\ RowsOf(db.objects, log[Len(log)].path) # {}
    /\ RowsOf(db.traits, log[Len(log)].path) # {}

\* C21: when reindex or check ends, every file of the vault was visited:
\* one error is counted and logged for a file that cannot be read, parsed or
\* indexed, the other files are indexed by reindex and counted, and check
\* counts every file
C21_ContinuesAfterFailure ==
    ipc = "done" =>
        /\ error_count = Len(log)
        /\ cmd.name = "reindex" => file_count + error_count = Len(vault.files)
        /\ cmd.name = "check" => file_count = Len(vault.files)
        /\ \A k \in 1..Len(vault.files) :
            LET f == vault.files[k]
                failed == Phases(f.path)
            IN  /\ ~f.readable => failed = <<"read">>
                /\ (f.readable /\ parse_frontmatter(f.text).err) =>
                        failed = <<"parse">>
                /\ (f.readable /\ ~parse_frontmatter(f.text).err
                        /\ cmd.name = "check") =>
                        \A j \in 1..Len(failed) : failed[j] \in {"type", "id"}
                /\ (f.readable /\ ~parse_frontmatter(f.text).err
                        /\ cmd.name = "reindex") =>
                        \/ failed = <<"index">>
                        \/ /\ failed = <<>>
                           /\ RowsOf(db.objects, f.path) # {}
                           /\ (RowsOf(db.traits, f.path) # {}) <=> (f.text[Len(f.text)] = Text)

\* reindex has ended on three files, the second of which failed, and the
\* first and the third are indexed
C21_Witness ==
    /\ ipc = "done"
    /\ cmd.name = "reindex"
    /\ Len(vault.files) = 3
    /\ Len(log) = 1
    /\ log[1].path = vault.files[2].path
    /\ file_count = 2
    /\ RowsOf(db.objects, vault.files[1].path) # {}
    /\ RowsOf(db.refs, vault.files[3].path) # {}

\* C30: when reindex has ended, every file path with rows in the index is
\* that of a file indexed in this run
C30_RowsOnlyOfIndexedFiles ==
    (ipc = "done" /\ cmd.name = "reindex") =>
        \A r \in db.objects \cup db.traits \cup db.refs :
            \E k \in 1..Len(vault.files) :
                /\ vault.files[k].path = r.file_path
                /\ Phases(r.file_path) = <<>>

====
